---- MODULE Spec2Model ----
(***************************************************************************)
(* Verification model of the scholarship scraping pipeline                 *)
(* (alwinjaison18/scholarship, backend).                                   *)
(*                                                                         *)
(*  - Spec        the ScrapingJob life cycle: create_scraping_job,         *)
(*                execute_scraping_job (with scrape_scholarships and       *)
(*                save_scraped_scholarships), the Celery scraping task,    *)
(*                cancel_scraping_job and retry_scraping_job.              *)
(*  - SpecScrape  scrape_scholarships called directly with arbitrary       *)
(*                max_pages, pagination configuration and source size.     *)
(*  - SpecSave    two scrape_discovered_source tasks writing the shared    *)
(*                scholarship table.                                       *)
(*  - SpecDetect  DuplicationDetector.detect_duplication on a pair.         *)
(*  - SpecDedup   DuplicationDetector on a bounded batch of records.       *)
(*  - SpecExtract  _extract_scholarship_data on one candidate element.     *)
(*  - SpecValidate validate_url, validate_urls_batch and                   *)
(*                validate_multiple_urls.                                  *)
(*  - SpecCleanup  the validation tasks on the persisted scholarships.     *)
(*  - SpecDeadline extract_deadline_from_text on a text.                   *)
(*  - SpecAmount   AmountParser.parse_amount on a text.                    *)
(*  - SpecCrawl    DynamicScholarshipCrawler.discover_scholarship_sources.  *)
(*  - SpecGroup    get_duplicate_groups on an arbitrary duplicate relation. *)
(*  - SpecBatchValidate  LinkValidator.batch_validate step by step.        *)
(***************************************************************************)
EXTENDS Integers, Sequences, FiniteSets, TLC

VARIABLES
    jobs,       \* scraping_jobs table: job id -> row (status "absent": no row)
    ex,         \* per job id: the executor (background task or Celery task) and its locals
    store,      \* scholarships table (SpecSave): committed rows
    wk,         \* SpecSave: the two tasks' loop state
    batch,      \* the input of the function under analysis (SpecDedup: the list of
                \* scholarship dicts); SpecCleanup: the scholarships table
    dd          \* the results of the calls made so far

vars == <<jobs, ex, store, wk, batch, dd>>

(***************************************************************************)
(* Bounds of the model                                                     *)
(***************************************************************************)
MaxJobs == 1            \* job / task ids in play
JobSourcePages == 2     \* pages of a source scraped by a job
MaxPerPage == 1         \* scholarships one page extraction may return
MaxPagesArg == 3        \* largest explicit max_pages argument of a direct scrape_scholarships call
MaxCfgPages == 3        \* pagination.max_pages of a source configuration
MaxSourcePages == 5     \* pages a directly scraped source may have
MaxScraped == 2         \* scholarships one scrape_discovered_source run returns
MaxBatch == 4           \* records in a batch given to deduplicate_scholarships

JobIds == 1..MaxJobs

(***************************************************************************)
(* Program constants                                                       *)
(***************************************************************************)
DefaultMaxRetries == 3  \* ScrapingJob.max_retries column default
ExecMaxPages == 10      \* execute_scraping_job: scrape_scholarships(max_pages=10)
TaskMaxRetries == 3     \* self.retry(exc=e, countdown=300, max_retries=3)
GovMaxPages == 50       \* source_configs['scholarships.gov.in'].pagination.max_pages
DefaultMaxPages == 10   \* scrape_scholarships(..., max_pages: int = 10)

Min(a, b) == IF a < b THEN a ELSE b

\* str.lower() on the source names in play
Lower(s) == IF s = "NSP" THEN "nsp" ELSE s

\* self.source_configs.get(source_name, {}) reduced to what scrape_scholarships
\* reads: pagination.enabled and pagination.max_pages (0: key absent).  Every
\* shipped configuration with pagination carries a next_page_selector.
SourceConfig(name) ==
    IF name = "scholarships.gov.in"
    THEN [enabled |-> TRUE, max_pages |-> GovMaxPages]
    ELSE [enabled |-> FALSE, max_pages |-> 0]

ServiceSources == {"scholarships.gov.in", "aicte-india.org"}

NoJob ==
    [status |-> "absent", source_name |-> "", retry_count |-> 0, max_retries |-> 0,
     items_scraped |-> 0, items_saved |-> 0, items_rejected |-> 0, errors |-> <<>>]

\* A freshly inserted ScrapingJob row (column defaults of models.py)
NewJob(st, name) ==
    [status |-> st, source_name |-> name, retry_count |-> 0,
     max_retries |-> DefaultMaxRetries,
     items_scraped |-> 0, items_saved |-> 0, items_rejected |-> 0, errors |-> <<>>]

NoExec ==
    [kind |-> "none", pc |-> "none", revoked |-> FALSE, attempts |-> 0,
     max_pages |-> 0, cfg |-> [enabled |-> FALSE, max_pages |-> 0], src_pages |-> 0,
     current_page |-> 0, calls |-> 0, fetches |-> 0, scraped |-> 0,
     idx |-> 0, saved_count |-> 0, err |-> "", page_error |-> FALSE, delayed |-> FALSE]

FreeIds == {j \in JobIds : jobs[j].status = "absent" /\ ex[j].kind = "none"}
HasFreeId == FreeIds # {}
FreshId == CHOOSE j \in FreeIds : \A k \in FreeIds : j <= k


(***************************************************************************)
(* ScrapingService.scrape_scholarships  (scraping_service.py 150-240)      *)
(***************************************************************************)
JobsUnchanged == UNCHANGED <<jobs, store, wk, batch, dd>>

\* Where control goes when scrape_scholarships re-raises (line 236)
RaiseTarget(j) == IF ex[j].kind = "service" THEN "exec_fail" ELSE "raised"

\* min(max_pages, max_pages_config) with max_pages_config defaulting to max_pages
PageCeiling(max_pages, cfg) ==
    Min(max_pages, IF cfg.max_pages = 0 THEN max_pages ELSE cfg.max_pages)

\* page.goto(source_url) is issued
Navigate(j) ==
    /\ ex[j].pc = "navigate"
    /\ ex' = [ex EXCEPT ![j].fetches = @ + 1, ![j].pc = "nav_wait"]
    /\ JobsUnchanged

\* page.goto returns, or times out and the exception leaves scrape_scholarships
NavigateDone(j) ==
    /\ ex[j].pc = "nav_wait"
    /\ \/ ex' = [ex EXCEPT ![j].pc = "extract_first"]
       \/ ex' = [ex EXCEPT ![j].pc = RaiseTarget(j), ![j].err = "navigation failed"]
    /\ JobsUnchanged

\* First _extract_scholarships_from_page call (lines 188-192); it is outside the
\* pagination try block, so an exception leaves scrape_scholarships.
ExtractFirst(j) ==
    /\ ex[j].pc = "extract_first"
    /\ \/ \E k \in 0..MaxPerPage :
            ex' = [ex EXCEPT ![j].calls = @ + 1,
                             ![j].scraped = @ + k,
                             ![j].current_page = IF ex[j].cfg.enabled THEN 1 ELSE @,
                             ![j].delayed = FALSE,
                             ![j].pc = IF ex[j].cfg.enabled THEN "loop" ELSE "close"]
       \/ ex' = [ex EXCEPT ![j].calls = @ + 1,
                           ![j].page_error = TRUE,
                           ![j].err = "extraction failed",
                           ![j].pc = RaiseTarget(j)]
    /\ JobsUnchanged

\* Mutant of NextPage: the loop test is current_page <= ceiling.
NextPageOffByOne(j) ==
    /\ ex[j].pc = "loop"
    /\ IF /\ ex[j].current_page <= PageCeiling(ex[j].max_pages, ex[j].cfg)
          /\ ex[j].current_page < ex[j].src_pages
       THEN ex' = [ex EXCEPT ![j].fetches = @ + 1, ![j].pc = "page_wait"]
       ELSE ex' = [ex EXCEPT ![j].pc = "close"]
    /\ JobsUnchanged

\* Loop test, query_selector(next_page_selector) and next_button.click()
\* (lines 200-214).  Page current_page of the source has a next button iff the
\* source has more pages.
NextPage(j) ==
    /\ ex[j].pc = "loop"
    /\ IF /\ ex[j].current_page < PageCeiling(ex[j].max_pages, ex[j].cfg)
          /\ ex[j].current_page < ex[j].src_pages
       THEN ex' = [ex EXCEPT ![j].fetches = @ + 1, ![j].pc = "page_wait"]
       ELSE ex' = [ex EXCEPT ![j].pc = "close"]
    /\ JobsUnchanged

\* wait_for_load_state('networkidle') returns, or raises and the loop breaks
PageLoaded(j) ==
    /\ ex[j].pc = "page_wait"
    /\ \/ ex' = [ex EXCEPT ![j].pc = "extract_next"]
       \/ ex' = [ex EXCEPT ![j].pc = "close", ![j].page_error = TRUE]
    /\ JobsUnchanged

\* Extraction of a paginated page (lines 217-223), or its exception (228-230)
ExtractNext(j) ==
    /\ ex[j].pc = "extract_next"
    /\ \/ \E k \in 0..MaxPerPage :
            ex' = [ex EXCEPT ![j].calls = @ + 1,
                             ![j].scraped = @ + k,
                             ![j].current_page = @ + 1,
                             ![j].delayed = FALSE,
                             ![j].pc = "sleep"]
       \/ ex' = [ex EXCEPT ![j].calls = @ + 1,
                           ![j].page_error = TRUE,
                           ![j].pc = "close"]
    /\ JobsUnchanged

\* asyncio.sleep(self.config['delay'])  (line 226); delayed records that the
\* delay has elapsed since the last extraction
Sleep(j) ==
    /\ ex[j].pc = "sleep"
    /\ ex' = [ex EXCEPT ![j].pc = "loop", ![j].delayed = TRUE]
    /\ JobsUnchanged

\* browser.close() and return scholarships (lines 232-240)
CloseBrowser(j) ==
    /\ ex[j].pc = "close"
    /\ ex' = [ex EXCEPT ![j].pc = IF ex[j].kind = "service" THEN "save" ELSE "returned"]
    /\ JobsUnchanged

ScrapeStep(j) ==
    \/ Navigate(j)
    \/ NavigateDone(j)
    \/ ExtractFirst(j)
    \/ NextPage(j)
    \/ PageLoaded(j)
    \/ ExtractNext(j)
    \/ Sleep(j)
    \/ CloseBrowser(j)


(***************************************************************************)
(* DuplicationDetector  (utils/deduplication.py)                           *)
(*                                                                         *)
(* A text is a sequence of one-character strings.  Similarities are exact  *)
(* fractions [n, d]; the code computes the same quantities in floats.      *)
(***************************************************************************)
Abs(x) == IF x < 0 THEN -x ELSE x
Max(a, b) == IF a > b THEN a ELSE b

RECURSIVE Gcd(_, _)
Gcd(a, b) == IF b = 0 THEN a ELSE Gcd(b, a % b)

Lcm(a, b) == (a \div Gcd(a, b)) * b

\* The fraction n/d in lowest terms
Frac(n, d) == LET g == Gcd(n, d) IN [n |-> n \div g, d |-> d \div g]

Zero == [n |-> 0, d |-> 1]
One == [n |-> 1, d |-> 1]

\* x > p/q and x >= p/q for a fraction x
Gt(x, p, q) == x.n * q > p * x.d
Ge(x, p, q) == x.n * q >= p * x.d

\* self.field_weights (lines 36-44), in hundredths
FieldWeight(f) ==
    CASE f = "title" -> 30
      [] f = "url" -> 25
      [] f = "description" -> 20
      [] f = "amount" -> 10
      [] f = "deadline" -> 5
      [] f = "category" -> 5
      [] f = "eligibility" -> 5

\* self.similarity_threshold = 0.8, as the fraction ThresholdNum / ThresholdDen
ThresholdNum == 8
ThresholdDen == 10

\* The words of self.stop_words that the model's alphabet can spell
StopWords == {<<"a">>, <<"a", "n">>, <<"i", "n">>}

\* str.lower() on the alphabet of the model
LowerChar(c) ==
    CASE c = "X" -> "x"
      [] c = "Y" -> "y"
      [] c = "Z" -> "z"
      [] c = "A" -> "a"
      [] OTHER -> c

\* re.sub(r'[^\w\s]', ' ', text) on one character
PunctToSpace(c) == IF c \in {".", ",", "-"} THEN " " ELSE c

\* text.split(): the maximal runs of non-space characters
RECURSIVE SplitFrom(_, _, _, _)
SplitFrom(t, i, cur, acc) ==
    IF i > Len(t)
    THEN IF cur = <<>> THEN acc ELSE Append(acc, cur)
    ELSE IF t[i] = " "
         THEN SplitFrom(t, i + 1, <<>>, IF cur = <<>> THEN acc ELSE Append(acc, cur))
         ELSE SplitFrom(t, i + 1, Append(cur, t[i]), acc)

\* ' '.join(words)
RECURSIVE JoinWords(_)
JoinWords(ws) ==
    IF ws = <<>> THEN <<>>
    ELSE IF Len(ws) = 1 THEN ws[1]
    ELSE ws[1] \o <<" ">> \o JoinWords(Tail(ws))

IsNotStopWord(w) == w \notin StopWords

\* _normalize_text (lines 231-247): lower case, punctuation to spaces,
\* whitespace collapsed, stop words removed
NormalizeText(text) ==
    LET lowered == [i \in 1..Len(text) |-> PunctToSpace(LowerChar(text[i]))]
    IN JoinWords(SelectSeq(SplitFrom(lowered, 1, <<>>, <<>>), IsNotStopWord))

\* difflib.SequenceMatcher.find_longest_match without junk: the longest
\* common block, the one starting earliest in a, then earliest in b.
CommonBlocks(a, b) ==
    {m \in (1..Len(a)) \X (1..Len(b)) \X (1..Min(Len(a), Len(b))) :
        /\ m[1] + m[3] - 1 <= Len(a)
        /\ m[2] + m[3] - 1 <= Len(b)
        /\ \A x \in 0..(m[3] - 1) : a[m[1] + x] = b[m[2] + x]}

LongestMatch(a, b) ==
    LET blocks == CommonBlocks(a, b)
    IN CHOOSE m \in blocks :
         \A o \in blocks :
            \/ m[3] > o[3]
            \/ m[3] = o[3] /\ m[1] < o[1]
            \/ m[3] = o[3] /\ m[1] = o[1] /\ m[2] <= o[2]

\* Sum of the sizes of get_matching_blocks(): the longest match, then the
\* pieces to its left and to its right, recursively
RECURSIVE MatchedChars(_, _)
MatchedChars(a, b) ==
    IF a = <<>> \/ b = <<>> \/ CommonBlocks(a, b) = {}
    THEN 0
    ELSE LET m == LongestMatch(a, b)
         IN m[3]
            + MatchedChars(SubSeq(a, 1, m[1] - 1), SubSeq(b, 1, m[2] - 1))
            + MatchedChars(SubSeq(a, m[1] + m[3], Len(a)), SubSeq(b, m[2] + m[3], Len(b)))

\* _calculate_text_similarity (lines 213-229): SequenceMatcher(...).ratio()
\* = 2 * matched / (len(a) + len(b)) on the normalised texts
TextSimilarity(text1, text2) ==
    IF text1 = <<>> \/ text2 = <<>> THEN Zero
    ELSE LET a == NormalizeText(text1)
             b == NormalizeText(text2)
         IN IF a = <<>> \/ b = <<>> THEN Zero
            ELSE Frac(2 * MatchedChars(a, b), Len(a) + Len(b))

\* A URL as urlparse splits it: scheme, netloc (host, written in upper case
\* or not, with a www. prefix or not), path (with a trailing slash or not),
\* query.  NoUrl is the empty string.
NoUrl == [scheme |-> "", www |-> FALSE, upper |-> FALSE, host |-> "", path |-> "",
          slash |-> FALSE, query |-> ""]

\* _normalize_url (lines 195-211): url.lower(), netloc without "www.",
\* path.rstrip('/'), and scheme://netloc/path only (query dropped)
NormalizeUrl(u) ==
    IF u = NoUrl THEN NoUrl
    ELSE [scheme |-> u.scheme, www |-> FALSE, upper |-> FALSE, host |-> u.host,
          path |-> u.path, slash |-> FALSE, query |-> ""]

\* _compare_amounts (lines 249-276) for two non-zero amounts:
\* max(0, 1 - |a - b| / ((a + b) / 2))
CompareAmounts(a1, a2) ==
    IF a1 = 0 /\ a2 = 0 THEN One
    ELSE IF a1 = 0 \/ a2 = 0 THEN Zero
    ELSE Frac(Max(0, (a1 + a2) - 2 * Abs(a1 - a2)), a1 + a2)

\* _compare_dates (lines 278-306) on datetimes given as day numbers
CompareDates(d1, d2) ==
    LET diff_days == Abs(d1 - d2)
    IN IF diff_days <= 3 THEN One
       ELSE IF diff_days <= 7 THEN Frac(8, 10)
       ELSE IF diff_days <= 14 THEN Frac(6, 10)
       ELSE IF diff_days <= 30 THEN Frac(4, 10)
       ELSE Zero

Fields == {"url", "title", "description", "amount", "deadline", "category", "eligibility"}

\* The fields detect_duplication compares: those present (truthy) in both dicts
ComparedFields(s1, s2) ==
    {f \in Fields :
        CASE f = "url" -> s1.url # NoUrl /\ s2.url # NoUrl
          [] f = "amount" -> s1.amount # 0 /\ s2.amount # 0
          [] f = "deadline" -> s1.deadline # 0 /\ s2.deadline # 0
          [] OTHER -> s1[f] # <<>> /\ s2[f] # <<>>}

\* field_similarities[f] of detect_duplication (lines 103-174)
FieldSimilarity(f, s1, s2) ==
    CASE f = "url" -> IF NormalizeUrl(s1.url) = NormalizeUrl(s2.url) THEN One ELSE Zero
      [] f = "amount" -> CompareAmounts(s1.amount, s2.amount)
      [] f = "deadline" -> CompareDates(s1.deadline, s2.deadline)
      [] OTHER -> TextSimilarity(s1[f], s2[f])

\* The threshold above which a field is listed in matching_fields
FieldMatches(f, sim) ==
    CASE f = "url" -> sim = One
      [] f = "title" -> Gt(sim, 8, 10)
      [] f = "description" -> Gt(sim, 7, 10)
      [] f = "amount" -> Gt(sim, 9, 10)
      [] f = "deadline" -> Gt(sim, 8, 10)
      [] f = "category" -> Gt(sim, 7, 10)
      [] f = "eligibility" -> Gt(sim, 6, 10)

RECURSIVE LcmOfDens(_, _)
LcmOfDens(fs, sims) ==
    IF fs = {} THEN 1
    ELSE LET f == CHOOSE x \in fs : TRUE
         IN Lcm(sims[f].d, LcmOfDens(fs \ {f}, sims))

RECURSIVE WeightedSum(_, _, _)
WeightedSum(fs, sims, l) ==
    IF fs = {} THEN 0
    ELSE LET f == CHOOSE x \in fs : TRUE
         IN FieldWeight(f) * sims[f].n * (l \div sims[f].d) + WeightedSum(fs \ {f}, sims, l)

RECURSIVE TotalWeight(_)
TotalWeight(fs) ==
    IF fs = {} THEN 0
    ELSE LET f == CHOOSE x \in fs : TRUE IN FieldWeight(f) + TotalWeight(fs \ {f})

\* Mutant of OverallSimilarity: the weighted sum is divided by the sum of all
\* field weights, not by the weights of the fields compared.
OverallNotRenormalised(sims) ==
    LET fs == DOMAIN sims
    IN IF fs = {} THEN Zero
       ELSE LET l == LcmOfDens(fs, sims)
            IN Frac(WeightedSum(fs, sims, l), l * TotalWeight(Fields))

\* _calculate_overall_similarity (lines 308-324): the average of the compared
\* fields' similarities weighted by field_weights, 0.0 when none is compared
OverallSimilarity(sims) ==
    LET fs == DOMAIN sims
    IN IF fs = {} THEN Zero
       ELSE LET l == LcmOfDens(fs, sims)
            IN Frac(WeightedSum(fs, sims, l), l * TotalWeight(fs))

\* detect_duplication (lines 74-193)
DetectDuplication(s1, s2) ==
    LET sims == [f \in ComparedFields(s1, s2) |-> FieldSimilarity(f, s1, s2)]
        overall == OverallSimilarity(sims)
    IN [is_duplicate |-> Ge(overall, ThresholdNum, ThresholdDen),
        similarity_score |-> overall,
        field_similarities |-> sims,
        matching_fields |-> {f \in DOMAIN sims : FieldMatches(f, sims[f])}]

\* The index pairs (i, j), i < j, in the order of the two nested loops of
\* find_duplicates_in_batch (lines 364-369).  Indices are 1-based here.
RECURSIVE PairsFrom(_, _, _)
PairsFrom(i, j, n) ==
    IF i >= n THEN <<>>
    ELSE IF j > n THEN PairsFrom(i + 1, i + 2, n)
    ELSE <<<<i, j>>>> \o PairsFrom(i, j + 1, n)

\* find_duplicates_in_batch (lines 349-371): the pairs reported as duplicates
FindDuplicatesInBatch(scholarships) ==
    LET IsDup(p) == DetectDuplication(scholarships[p[1]], scholarships[p[2]]).is_duplicate
    IN SelectSeq(PairsFrom(1, 2, Len(scholarships)), IsDup)

\* Mutant of GroupStep: a pair with exactly one member already grouped is
\* skipped instead of extending that member's group.
GroupStepNoExtend(st, i, j) ==
    LET gi == st.index_to_group[i]
        gj == st.index_to_group[j]
    IN IF gi = 0 /\ gj = 0
       THEN [groups |-> Append(st.groups, <<i, j>>),
             index_to_group |-> [st.index_to_group EXCEPT ![i] = Len(st.groups) + 1,
                                                          ![j] = Len(st.groups) + 1]]
       ELSE st

\* GroupStep without the merge of two groups (lines 410-421)
GroupStepNoMerge(st, i, j) ==
    LET gi == st.index_to_group[i]
        gj == st.index_to_group[j]
    IN IF gi = 0 /\ gj = 0
       THEN [groups |-> Append(st.groups, <<i, j>>),
             index_to_group |-> [st.index_to_group EXCEPT ![i] = Len(st.groups) + 1,
                                                          ![j] = Len(st.groups) + 1]]
       ELSE IF gi # 0 /\ gj = 0
       THEN [groups |-> [st.groups EXCEPT ![gi] = Append(@, j)],
             index_to_group |-> [st.index_to_group EXCEPT ![j] = gi]]
       ELSE IF gi = 0 /\ gj # 0
       THEN [groups |-> [st.groups EXCEPT ![gj] = Append(@, i)],
             index_to_group |-> [st.index_to_group EXCEPT ![i] = gj]]
       ELSE st

\* One iteration of the loop of get_duplicate_groups (lines 393-421).
\* index_to_group[x] = 0 stands for index_to_group.get(x) is None.
GroupStep(st, i, j) ==
    LET gi == st.index_to_group[i]
        gj == st.index_to_group[j]
    IN IF gi = 0 /\ gj = 0
       THEN [groups |-> Append(st.groups, <<i, j>>),
             index_to_group |-> [st.index_to_group EXCEPT ![i] = Len(st.groups) + 1,
                                                          ![j] = Len(st.groups) + 1]]
       ELSE IF gi # 0 /\ gj = 0
       THEN [groups |-> [st.groups EXCEPT ![gi] = Append(@, j)],
             index_to_group |-> [st.index_to_group EXCEPT ![j] = gi]]
       ELSE IF gi = 0 /\ gj # 0
       THEN [groups |-> [st.groups EXCEPT ![gj] = Append(@, i)],
             index_to_group |-> [st.index_to_group EXCEPT ![i] = gj]]
       ELSE IF gi # gj
       THEN LET group_to_merge == st.groups[gj]
            IN [groups |-> [st.groups EXCEPT ![gi] = @ \o group_to_merge, ![gj] = <<>>],
                index_to_group |->
                    [x \in DOMAIN st.index_to_group |->
                        IF \E y \in 1..Len(group_to_merge) : group_to_merge[y] = x
                        THEN gi ELSE st.index_to_group[x]]]
       ELSE st

RECURSIVE GroupFold(_, _, _)
GroupFold(pairs, k, st) ==
    IF k > Len(pairs) THEN st
    ELSE GroupFold(pairs, k + 1, GroupStep(st, pairs[k][1], pairs[k][2]))

IsNonEmpty(group) == group # <<>>

\* get_duplicate_groups from line 393 on: the groups built from the
\* duplicate_pairs of a list of n scholarships
GroupsOfPairs(duplicate_pairs, n) ==
    LET start == [groups |-> <<>>, index_to_group |-> [x \in 1..n |-> 0]]
        final == GroupFold(duplicate_pairs, 1, start)
    IN SelectSeq(final.groups, IsNonEmpty)

\* get_duplicate_groups (lines 373-426)
GetDuplicateGroups(scholarships) ==
    GroupsOfPairs(FindDuplicatesInBatch(scholarships), Len(scholarships))

SeqToSet(q) == {q[x] : x \in 1..Len(q)}

\* The 'best' branch (lines 462-476): the first member with the highest
\* quality_score
RECURSIVE BestIndex(_, _, _, _)
BestIndex(scholarships, group, k, best_idx) ==
    IF k > Len(group) THEN best_idx
    ELSE BestIndex(scholarships, group, k + 1,
                   IF scholarships[group[k]].quality_score > scholarships[best_idx].quality_score
                   THEN group[k] ELSE best_idx)

\* Mutant of GroupRemovals: 'first' removes group[2:] instead of group[1:].
GroupRemovalsSliceSlip(scholarships, group, keep_strategy) ==
    IF Len(group) <= 1 THEN {}
    ELSE IF keep_strategy = "first" THEN SeqToSet(SubSeq(group, 3, Len(group)))
    ELSE IF keep_strategy = "last" THEN SeqToSet(SubSeq(group, 1, Len(group) - 1))
    ELSE SeqToSet(group) \ {BestIndex(scholarships, group, 2, group[1])}

\* What one group adds to indices_to_remove for a keep_strategy (lines 452-476)
GroupRemovals(scholarships, group, keep_strategy) ==
    IF Len(group) <= 1 THEN {}
    ELSE IF keep_strategy = "first" THEN SeqToSet(Tail(group))
    ELSE IF keep_strategy = "last" THEN SeqToSet(SubSeq(group, 1, Len(group) - 1))
    ELSE SeqToSet(group) \ {BestIndex(scholarships, group, 2, group[1])}

\* indices_to_remove after the loop over duplicate_groups (lines 450-476)
IndicesToRemove(scholarships, duplicate_groups, keep_strategy) ==
    UNION {GroupRemovals(scholarships, duplicate_groups[g], keep_strategy) :
              g \in 1..Len(duplicate_groups)}

\* deduplicate_scholarships (lines 428-482): the list returned (result), with
\* the local duplicate_groups and the indices the final comprehension keeps
DeduplicateScholarships(scholarships, keep_strategy) ==
    LET duplicate_groups == GetDuplicateGroups(scholarships)
        indices_to_remove == IndicesToRemove(scholarships, duplicate_groups, keep_strategy)
        IsKept(x) == x \notin indices_to_remove
        kept == SelectSeq([x \in 1..Len(scholarships) |-> x], IsKept)
    IN [duplicate_groups |-> duplicate_groups,
        kept |-> kept,
        result |-> [x \in 1..Len(kept) |-> scholarships[kept[x]]]]

KeepStrategies == {"first", "last", "best"}

(***************************************************************************)
(* Persisting scraped scholarships: scrape_discovered_source               *)
(* (discovery_tasks.py 206-254) run by two Celery workers at once          *)
(***************************************************************************)
Tasks == {1, 2}

\* (title, provider) pairs the sources may list
Keys == {"k1", "k2"}

NoStore == [k \in Keys |-> [rows |-> 0, writer |-> 0]]
NoTasks == [w \in Tasks |-> [pc |-> "none", items |-> <<>>, i |-> 0,
                            adds |-> [k \in Keys |-> 0], updates |-> {}]]

ScrapedLists == UNION {[1..n -> Keys] : n \in 1..MaxScraped}

Occurrences(items, k) == Cardinality({x \in 1..Len(items) : items[x] = k})

\* One iteration of the loop (lines 210-252).  The query sees committed rows
\* only: the session is created with autoflush=False and the commit comes
\* after the loop, so neither this session's pending rows nor another
\* session's uncommitted rows are found.
ProcessScraped(w) ==
    /\ wk[w].pc = "loop" /\ wk[w].i < Len(wk[w].items)
    /\ LET k == wk[w].items[wk[w].i + 1]
           existing == store[k].rows > 0
       IN wk' = [wk EXCEPT ![w].i = @ + 1,
                           ![w].updates = IF existing THEN @ \cup {k} ELSE @,
                           ![w].adds = IF existing THEN @ ELSE [@ EXCEPT ![k] = @ + 1],
                           ![w].pc = IF wk[w].i + 1 = Len(wk[w].items) THEN "commit" ELSE "loop"]
    /\ UNCHANGED <<jobs, ex, store, batch, dd>>

\* db.commit() after the loop (line 254): pending rows are inserted, changed
\* rows are written
CommitSession(w) ==
    /\ wk[w].pc = "commit"
    /\ store' = [k \in Keys |->
                   [rows |-> store[k].rows + wk[w].adds[k],
                    writer |-> IF k \in wk[w].updates THEN w ELSE store[k].writer]]
    /\ wk' = [wk EXCEPT ![w].pc = "done"]
    /\ UNCHANGED <<jobs, ex, batch, dd>>

InitSave ==
    /\ jobs = [j \in JobIds |-> NoJob]
    /\ ex = [j \in JobIds |-> NoExec]
    /\ store \in [Keys -> {[rows |-> 0, writer |-> 0], [rows |-> 1, writer |-> 0]}]
    /\ \E l1 \in ScrapedLists, l2 \in ScrapedLists :
         wk = [w \in Tasks |-> [pc |-> "loop", items |-> IF w = 1 THEN l1 ELSE l2, i |-> 0,
                               adds |-> [k \in Keys |-> 0], updates |-> {}]]
    /\ batch = <<>>
    /\ dd = <<>>

NextSave == \E w \in Tasks : ProcessScraped(w) \/ CommitSession(w)

SpecSave == InitSave /\ [][NextSave]_vars

\* C5 (as stated): when two jobs that run concurrently both discover the same
\* scholarship (same title and provider, once in each job's result), the
\* store ends with exactly one persisted record for it.
C5_OneRecordPerScholarship ==
    (\A w \in Tasks : wk[w].pc = "done") =>
        \A k \in Keys :
            (\A w \in Tasks : Occurrences(wk[w].items, k) = 1) => store[k].rows = 1

(***************************************************************************)
(* Job executor: ScrapingService.create_scraping_job, execute_scraping_job *)
(* and save_scraped_scholarships  (scraping_service.py 856-1006)           *)
(***************************************************************************)
RestUnchanged == UNCHANGED <<store, wk, batch, dd>>

\* create_scraping_job followed by background_tasks.add_task(execute_scraping_job)
\* (main.py 444-446): a pending row and a queued executor.
create_scraping_job(j, name) ==
    /\ HasFreeId /\ j = FreshId
    /\ jobs' = [jobs EXCEPT ![j] = NewJob("pending", name)]
    /\ ex' = [ex EXCEPT ![j] = [NoExec EXCEPT !.kind = "service", !.pc = "queued"]]
    /\ RestUnchanged

\* execute_scraping_job lines 966-983: the row is fetched by id, set to running
\* whatever its status was, and scrape_scholarships(max_pages=10) is entered.
\* The source's page count is fixed here as the input of the run.
ExecBegin(j) ==
    /\ ex[j].kind = "service" /\ ex[j].pc = "queued"
    /\ jobs[j].status # "absent"
    /\ jobs' = [jobs EXCEPT ![j].status = "running"]
    /\ \E n \in 1..JobSourcePages :
         ex' = [ex EXCEPT ![j].pc = "navigate",
                          ![j].max_pages = ExecMaxPages,
                          ![j].cfg = SourceConfig(jobs[j].source_name),
                          ![j].src_pages = n]
    /\ RestUnchanged

\* One iteration of the loop of save_scraped_scholarships (lines 863-920): the
\* scholarship is skipped as a duplicate, skipped as invalid, saved and
\* committed (saved_count += 1), or its exception is logged and rolled back.
SaveItem(j) ==
    /\ ex[j].pc = "save" /\ ex[j].idx < ex[j].scraped
    /\ \E outcome \in {"duplicate", "invalid", "saved", "error"} :
         ex' = [ex EXCEPT ![j].idx = @ + 1,
                          ![j].saved_count = IF outcome = "saved" THEN @ + 1 ELSE @]
    /\ JobsUnchanged

\* Mutant of ExecComplete: items_scraped is set from the number of saved items
\* minus one instead of len(scholarships).
ExecCompleteLosesScraped(j) ==
    /\ ex[j].pc = "save" /\ ex[j].idx = ex[j].scraped
    /\ jobs' = [jobs EXCEPT ![j].status = "completed",
                            ![j].items_scraped = IF ex[j].saved_count > 0
                                                 THEN ex[j].saved_count - 1 ELSE 0,
                            ![j].items_saved = ex[j].saved_count]
    /\ ex' = [ex EXCEPT ![j].pc = "done"]
    /\ RestUnchanged

\* save_scraped_scholarships returns saved_count; lines 988-993 record completion
ExecComplete(j) ==
    /\ ex[j].pc = "save" /\ ex[j].idx = ex[j].scraped
    /\ jobs' = [jobs EXCEPT ![j].status = "completed",
                            ![j].items_scraped = ex[j].scraped,
                            ![j].items_saved = ex[j].saved_count]
    /\ ex' = [ex EXCEPT ![j].pc = "done"]
    /\ RestUnchanged

\* Mutant of ExecFail: the status is written but the error is not appended.
ExecFailDropsError(j) ==
    /\ ex[j].pc = "exec_fail"
    /\ jobs' = [jobs EXCEPT ![j].status = "failed"]
    /\ ex' = [ex EXCEPT ![j].pc = "done"]
    /\ RestUnchanged

\* except-branch of execute_scraping_job (lines 997-1006)
ExecFail(j) ==
    /\ ex[j].pc = "exec_fail"
    /\ jobs' = [jobs EXCEPT ![j].status = "failed",
                            ![j].errors = Append(@, ex[j].err)]
    /\ ex' = [ex EXCEPT ![j].pc = "done"]
    /\ RestUnchanged

\* except-branch of execute_scraping_job with db.commit() of line 1004
\* raising: the exception leaves the function, db_transaction rolls the
\* session back (database.py 319-322) and the committed row stays as it was.
ExecFailWriteRaises(j) ==
    /\ ex[j].pc = "exec_fail"
    /\ ex' = [ex EXCEPT ![j].pc = "done"]
    /\ JobsUnchanged

(***************************************************************************)
(* Celery scraping task: scrape_nsp_scholarships (scraping_tasks.py 26-89) *)
(***************************************************************************)
\* A task message with a fresh task id is queued (beat schedule, or .delay())
TaskLaunch(j) ==
    /\ HasFreeId /\ j = FreshId
    /\ ex' = [ex EXCEPT ![j] = [NoExec EXCEPT !.kind = "task", !.pc = "task_queued"]]
    /\ UNCHANGED jobs
    /\ RestUnchanged

\* Lines 29-40: ScrapingJob(id=self.request.id, status="running") is inserted;
\* the commit raises IntegrityError when a row with that id already exists.
TaskBegin(j) ==
    /\ ex[j].kind = "task" /\ ex[j].pc = "task_queued" /\ ~ex[j].revoked
    /\ IF jobs[j].status = "absent"
       THEN /\ jobs' = [jobs EXCEPT ![j] = NewJob("running", "NSP")]
            /\ ex' = [ex EXCEPT ![j].pc = "task_scrape", ![j].fetches = @ + 1]
       ELSE /\ UNCHANGED jobs
            /\ ex' = [ex EXCEPT ![j].pc = "task_fail", ![j].err = "IntegrityError"]
    /\ RestUnchanged

\* Lines 47-60: the scrape returned and the job is marked completed
TaskComplete(j) ==
    /\ ex[j].kind = "task" /\ ex[j].pc = "task_scrape"
    /\ jobs' = [jobs EXCEPT ![j].status = "completed"]
    /\ ex' = [ex EXCEPT ![j].pc = "done"]
    /\ RestUnchanged

\* Line 47 raising: control enters the except-branch
TaskScrapeRaises(j) ==
    /\ ex[j].kind = "task" /\ ex[j].pc = "task_scrape"
    /\ ex' = [ex EXCEPT ![j].pc = "task_fail", ![j].err = "scrape failed"]
    /\ JobsUnchanged

\* Mutant of TaskFail: errors is left as it was.
TaskFailDropsError(j) ==
    /\ ex[j].kind = "task" /\ ex[j].pc = "task_fail"
    /\ jobs' = [jobs EXCEPT ![j].status = IF @ = "absent" THEN @ ELSE "failed"]
    /\ ex' = [ex EXCEPT ![j].attempts = IF @ < TaskMaxRetries THEN @ + 1 ELSE @,
                        ![j].pc = IF ex[j].attempts < TaskMaxRetries
                                  THEN "task_queued" ELSE "done"]
    /\ RestUnchanged

\* except-branch, lines 73-89: the row, if found, becomes failed with
\* errors = [str(e)]; self.retry re-queues the task under the same id until
\* max_retries retries have been used.
TaskFail(j) ==
    /\ ex[j].kind = "task" /\ ex[j].pc = "task_fail"
    /\ jobs' = [jobs EXCEPT ![j] = IF @.status = "absent" THEN @
                                   ELSE [@ EXCEPT !.status = "failed",
                                                  !.errors = <<ex[j].err>>]]
    /\ ex' = [ex EXCEPT ![j].attempts = IF @ < TaskMaxRetries THEN @ + 1 ELSE @,
                        ![j].pc = IF ex[j].attempts < TaskMaxRetries
                                  THEN "task_queued" ELSE "done"]
    /\ RestUnchanged

\* except-branch, lines 73-89, with the query or db.commit() of lines 77-83
\* raising: "except: pass" drops the exception, the row stays as it was, and
\* self.retry goes on as in TaskFail.
TaskFailWriteRaises(j) ==
    /\ ex[j].kind = "task" /\ ex[j].pc = "task_fail"
    /\ ex' = [ex EXCEPT ![j].attempts = IF @ < TaskMaxRetries THEN @ + 1 ELSE @,
                        ![j].pc = IF ex[j].attempts < TaskMaxRetries
                                  THEN "task_queued" ELSE "done"]
    /\ JobsUnchanged

\* The worker acts on the revoke broadcast of cancel_scraping_job
\* (terminate=True): the process running the task is killed, a queued
\* message of the revoked id is discarded.
WorkerTerminate(j) ==
    /\ ex[j].kind = "task" /\ ex[j].revoked
    /\ ex[j].pc \in {"task_queued", "task_scrape", "task_fail"}
    /\ ex' = [ex EXCEPT ![j].pc = "killed"]
    /\ JobsUnchanged

(***************************************************************************)
(* Admin routes  (admin_routes.py 185-251)                                 *)
(***************************************************************************)
\* cancel_scraping_job: only a running job; app.control.revoke(job_id,
\* terminate=True) reaches a Celery task of that id, if there is one.
cancel_scraping_job(j) ==
    /\ jobs[j].status = "running"
    /\ jobs' = [jobs EXCEPT ![j].status = "cancelled"]
    /\ ex' = [ex EXCEPT ![j].revoked = TRUE]
    /\ RestUnchanged

\* Mutant of retry_scraping_job: the retry_count test is off by one
\* (retry_count > max_retries rejects).
RetryOffByOne(j) ==
    /\ jobs[j].status = "failed"
    /\ ~(jobs[j].retry_count > jobs[j].max_retries)
    /\ jobs' = [jobs EXCEPT ![j].status = "pending", ![j].retry_count = @ + 1]
    /\ IF Lower(jobs[j].source_name) = "nsp" /\ HasFreeId
       THEN ex' = [ex EXCEPT ![FreshId] =
                      [NoExec EXCEPT !.kind = "task", !.pc = "task_queued"]]
       ELSE UNCHANGED ex
    /\ RestUnchanged

\* retry_scraping_job: accepted for a failed job with retry_count < max_retries;
\* the job goes back to pending and, for the nsp/ugc/aicte sources, a new task
\* (a new task id) is queued.  The id space of the model is capped: with no id
\* left the new task is not represented.
retry_scraping_job(j) ==
    /\ jobs[j].status = "failed"
    /\ ~(jobs[j].retry_count >= jobs[j].max_retries)
    /\ jobs' = [jobs EXCEPT ![j].status = "pending", ![j].retry_count = @ + 1]
    /\ IF Lower(jobs[j].source_name) = "nsp" /\ HasFreeId
       THEN ex' = [ex EXCEPT ![FreshId] =
                      [NoExec EXCEPT !.kind = "task", !.pc = "task_queued"]]
       ELSE UNCHANGED ex
    /\ RestUnchanged

Init ==
    /\ jobs = [j \in JobIds |-> NoJob]
    /\ ex = [j \in JobIds |-> NoExec]
    /\ store = NoStore
    /\ wk = NoTasks
    /\ batch = <<>>
    /\ dd = <<>>

Next ==
    \E j \in JobIds :
        \/ \E name \in ServiceSources : create_scraping_job(j, name)
        \/ ExecBegin(j)
        \/ ScrapeStep(j)
        \/ SaveItem(j)
        \/ ExecComplete(j)
        \/ ExecFail(j)
        \/ ExecFailWriteRaises(j)
        \/ TaskLaunch(j)
        \/ TaskBegin(j)
        \/ TaskComplete(j)
        \/ TaskScrapeRaises(j)
        \/ TaskFail(j)
        \/ TaskFailWriteRaises(j)
        \/ WorkerTerminate(j)
        \/ cancel_scraping_job(j)
        \/ retry_scraping_job(j)

Spec == Init /\ [][Next]_vars


(***************************************************************************)
(* scrape_scholarships called directly (test_scraping.py, discovery tasks) *)
(***************************************************************************)
\* Source configurations of the shape of self.source_configs: no pagination,
\* or pagination enabled with a next_page_selector and an optional max_pages.
ScrapeConfigs ==
    {[enabled |-> FALSE, max_pages |-> 0]}
        \cup {[enabled |-> TRUE, max_pages |-> m] : m \in 0..MaxCfgPages}

ScrapeArgs == (0..MaxPagesArg) \cup {DefaultMaxPages}

InitScrape ==
    /\ jobs = [j \in JobIds |-> NoJob]
    /\ \E mp \in ScrapeArgs, c \in ScrapeConfigs, n \in 1..MaxSourcePages :
         ex = [j \in JobIds |->
                 IF j = 1
                 THEN [NoExec EXCEPT !.kind = "direct", !.pc = "navigate",
                                     !.max_pages = mp, !.cfg = c, !.src_pages = n]
                 ELSE NoExec]
    /\ store = NoStore
    /\ wk = NoTasks
    /\ batch = <<>>
    /\ dd = <<>>

NextScrape == \E j \in JobIds : ScrapeStep(j)

SpecScrape == InitScrape /\ [][NextScrape]_vars

(***************************************************************************)
(* DuplicationDetector called on a pair and on a batch of scraped records  *)
(***************************************************************************)
UrlA == [scheme |-> "https", www |-> TRUE, upper |-> TRUE, host |-> "x.org", path |-> "/p",
         slash |-> TRUE, query |-> "q"]
UrlB == [scheme |-> "https", www |-> FALSE, upper |-> FALSE, host |-> "x.org", path |-> "/p",
         slash |-> FALSE, query |-> ""]
UrlC == [scheme |-> "https", www |-> FALSE, upper |-> FALSE, host |-> "x.org", path |-> "/r",
         slash |-> FALSE, query |-> ""]

Urls == {NoUrl, UrlA, UrlB, UrlC}

NoFields == [title |-> <<>>, description |-> <<>>, amount |-> 0, deadline |-> 0,
             category |-> <<>>, eligibility |-> <<>>, quality_score |-> 0]

\* Values of the fields other than the URL
Profiles ==
    { NoFields,
      [NoFields EXCEPT !.title = <<"x", "y", "z", " ", "y", "z">>,
                       !.description = <<"x", "x", "y", "y">>,
                       !.amount = 100, !.deadline = 10,
                       !.category = <<"x">>, !.eligibility = <<"y">>],
      [NoFields EXCEPT !.title = <<"X", "y", "z", ",", " ", "y", "z">>,
                       !.description = <<"x", "x", "y", "y">>,
                       !.amount = 100, !.deadline = 12,
                       !.category = <<"x">>, !.eligibility = <<"y">>],
      [NoFields EXCEPT !.title = <<"a", "a", "a", " ", "a", "n">>],
      [NoFields EXCEPT !.title = <<"x", "y", "z", " ", "y", "z">>,
                       !.description = <<"z", "z">>,
                       !.amount = 300, !.deadline = 60,
                       !.category = <<"z">>, !.eligibility = <<"z">>],
      [NoFields EXCEPT !.title = <<"x", "y", "z", " ", "y", "x">>],
      [NoFields EXCEPT !.amount = 100, !.deadline = 10],
      [NoFields EXCEPT !.title = <<"a", "a", "a">>,
                       !.description = <<"x", "x", "y", "y">>,
                       !.amount = 100, !.deadline = 10,
                       !.category = <<"x">>, !.eligibility = <<"y">>] }

WithUrl(u, p) ==
    [url |-> u, title |-> p.title, description |-> p.description, amount |-> p.amount,
     deadline |-> p.deadline, category |-> p.category, eligibility |-> p.eligibility,
     quality_score |-> p.quality_score]

DetectPool == {WithUrl(u, p) : u \in Urls, p \in Profiles}

DedupUnchanged == UNCHANGED <<jobs, ex, store, wk, batch>>

\* detect_duplication(scholarship1, scholarship2)
Detect ==
    /\ dd.phase = "input"
    /\ dd' = [phase |-> "detected", result |-> DetectDuplication(batch[1], batch[2])]
    /\ DedupUnchanged

InitDetect ==
    /\ jobs = [j \in JobIds |-> NoJob]
    /\ ex = [j \in JobIds |-> NoExec]
    /\ store = NoStore
    /\ wk = NoTasks
    /\ \E s1 \in DetectPool, s2 \in DetectPool : batch = <<s1, s2>>
    /\ dd = [phase |-> "input"]

NextDetect == Detect

SpecDetect == InitDetect /\ [][NextDetect]_vars

Titled(t, u, q) == [WithUrl(u, NoFields) EXCEPT !.title = t, !.quality_score = q]

\* Records whose titles form a chain: each is a duplicate of the next one
\* only; one more copy of the first with another score; one unrelated record
DedupPool ==
    { Titled(<<"x", "x", "x", "x", "x", "x">>, NoUrl, 1),
      Titled(<<"x", "x", "x", "x", "x", "y">>, UrlB, 3),
      Titled(<<"x", "x", "x", "x", "y", "y">>, NoUrl, 2),
      Titled(<<"x", "x", "x", "y", "y", "y">>, NoUrl, 3),
      Titled(<<"x", "x", "x", "x", "x", "x">>, UrlA, 5),
      Titled(<<"z", "z", "z", "z", "z", "z">>, UrlA, 0) }

RECURSIVE SeqsUpTo(_, _)
SeqsUpTo(S, n) ==
    IF n = 0 THEN {<<>>}
    ELSE LET shorter == SeqsUpTo(S, n - 1)
         IN shorter \cup {Append(q, x) : q \in shorter, x \in S}

\* deduplicate_scholarships(batch, keep_strategy)
Deduplicate(keep_strategy) ==
    /\ dd.phase = "input"
    /\ \E r \in {DeduplicateScholarships(batch, keep_strategy)} :
          dd' = [phase |-> "deduplicated",
                 keep_strategy |-> keep_strategy,
                 groups |-> r.duplicate_groups,
                 kept |-> r.kept,
                 out |-> r.result]
    /\ DedupUnchanged

\* get_duplicate_groups and deduplicate_scholarships run on the output
Regroup ==
    /\ dd.phase = "deduplicated"
    /\ \E r \in {DeduplicateScholarships(dd.out, dd.keep_strategy)} :
          dd' = [phase |-> "regrouped",
                 keep_strategy |-> dd.keep_strategy,
                 groups |-> dd.groups,
                 kept |-> dd.kept,
                 out |-> dd.out,
                 groups_again |-> r.duplicate_groups,
                 out_again |-> r.result]
    /\ DedupUnchanged

InitDedup ==
    /\ jobs = [j \in JobIds |-> NoJob]
    /\ ex = [j \in JobIds |-> NoExec]
    /\ store = NoStore
    /\ wk = NoTasks
    /\ batch \in SeqsUpTo(DedupPool, MaxBatch)
    /\ dd = [phase |-> "input"]

NextDedup ==
    \/ \E keep_strategy \in KeepStrategies : Deduplicate(keep_strategy)
    \/ Regroup

SpecDedup == InitDedup /\ [][NextDedup]_vars

(***************************************************************************)
(* Extraction of one candidate: ScrapingService._extract_scholarship_data, *)
(* _merge_extraction_results, _clean_and_validate_data and clean_text      *)
(* (utils/text_processing.py).  In the specifications below batch holds    *)
(* the input of the function under study and dd its result.               *)
(***************************************************************************)
\* html.unescape on the one entity of the model's alphabet, &amp;
RECURSIVE Unescape(_)
Unescape(text) ==
    IF text = <<>> THEN <<>>
    ELSE IF Len(text) >= 5 /\ SubSeq(text, 1, 5) = <<"&", "a", "m", "p", ";">>
    THEN <<"&">> \o Unescape(SubSeq(text, 6, Len(text)))
    ELSE <<Head(text)>> \o Unescape(Tail(text))

\* re.sub(r'\s+', ' ', text)
RECURSIVE CollapseSpaces(_)
CollapseSpaces(text) ==
    IF text = <<>> THEN <<>>
    ELSE IF Len(text) >= 2 /\ text[1] = " " /\ text[2] = " "
    THEN CollapseSpaces(Tail(text))
    ELSE <<Head(text)>> \o CollapseSpaces(Tail(text))

\* str.strip()
RECURSIVE Strip(_)
Strip(text) ==
    IF text = <<>> THEN <<>>
    ELSE IF Head(text) = " " THEN Strip(Tail(text))
    ELSE IF text[Len(text)] = " " THEN Strip(SubSeq(text, 1, Len(text) - 1))
    ELSE text

\* clean_text (text_processing.py 11-28); unicodedata.normalize('NFKD', .)
\* leaves the ASCII alphabet of the model unchanged
CleanText(text) ==
    IF text = <<>> THEN <<>> ELSE Strip(CollapseSpaces(Unescape(text)))

MinTitleLen == 10
MinDescriptionLen == 20

NoRecord == [accepted |-> FALSE]

\* The deadline check of _clean_and_validate_data (lines 534-546): "reject"
\* when the candidate is skipped, else the deadline that is kept.  A string is
\* parsed by parse_date, which returns a datetime or None; the comparison of a
\* datetime with datetime.now().date() raises TypeError, which the inner
\* except turns into deadline = None; only a date compares.
CheckDeadline(deadline) ==
    LET parsed == CASE deadline = "past_string" -> "past_datetime"
                    [] deadline = "future_string" -> "future_datetime"
                    [] deadline = "unparsable_string" -> "none"
                    [] OTHER -> deadline
    IN CASE parsed = "past_date" -> "reject"
         [] parsed = "future_date" -> "iso"
         [] OTHER -> "none"

\* _clean_and_validate_data (lines 509-607) on the fields that decide
\* acceptance.  deadline is "none", a string ("past_string", "future_string",
\* "unparsable_string"), a datetime ("past_datetime", "future_datetime") or a
\* date ("past_date", "future_date").
CleanAndValidateData(data) ==
    LET title == Strip(data.title)
        description == Strip(data.description)
    IN IF title = <<>> \/ Len(title) < MinTitleLen THEN NoRecord
       ELSE IF description = <<>> \/ Len(description) < MinDescriptionLen THEN NoRecord
       ELSE IF CheckDeadline(data.deadline) = "reject" THEN NoRecord
       ELSE [accepted |-> TRUE,
             title |-> CleanText(title),
             description |-> CleanText(description),
             deadline |-> CheckDeadline(data.deadline)]

\* _merge_extraction_results (lines 487-507) for a string field: the AI value
\* replaces the traditional one when that is empty or shorter
MergeText(ai_value, traditional_value) ==
    IF ai_value # <<>> /\ (traditional_value = <<>> \/ Len(ai_value) > Len(traditional_value))
    THEN ai_value ELSE traditional_value

\* _merge_extraction_results (lines 487-507)
MergeExtractionResults(ai_data, traditional_data) ==
    [title |-> MergeText(ai_data.title, traditional_data.title),
     description |-> MergeText(ai_data.description, traditional_data.description),
     deadline |-> IF ai_data.deadline # "none" /\ traditional_data.deadline = "none"
                  THEN ai_data.deadline ELSE traditional_data.deadline]

\* _extract_scholarship_data (lines 356-417).  ai.raises tells whether the call
\* of self.ai_service.extract_scholarship_data raises, ai.data is the dict it
\* returns otherwise: the call is inside the try block whose handler returns
\* None.
ExtractScholarshipData(ai, traditional) ==
    IF ai.raises THEN NoRecord
    ELSE CleanAndValidateData(MergeExtractionResults(ai.data, traditional))

MaxTokens == 3

TitleTokens == {<<"a", "a", "a", "a", "a">>, <<" ", " ", " ">>, <<"&", "a", "m", "p", ";">>}
DescriptionTokens ==
    {<<"b", "b", "b", "b", "b", "b", "b", "b", "b", "b">>, <<" ", " ", " ">>,
     <<"&", "a", "m", "p", ";">>}

\* The texts made of at most n tokens
RECURSIVE TextsOf(_, _)
TextsOf(tokens, n) ==
    IF n = 0 THEN {<<>>}
    ELSE LET shorter == TextsOf(tokens, n - 1)
         IN shorter \cup {t \o k : t \in shorter, k \in tokens}

NoData == [title |-> <<>>, description |-> <<>>, deadline |-> "none"]

\* What the selectors of _traditional_extraction may find in an element
TraditionalData ==
    {[title |-> t, description |-> d, deadline |-> dl] :
        t \in TextsOf(TitleTokens, MaxTokens),
        d \in TextsOf(DescriptionTokens, MaxTokens),
        dl \in {"none", "past_datetime", "future_datetime"}}

\* What the AI backend may answer
AiData ==
    {[raises |-> TRUE, data |-> NoData]} \cup
    {[raises |-> FALSE, data |-> d] :
        d \in {NoData,
               [NoData EXCEPT !.title = <<"c", "c", "c", "c", "c", "c", "c", "c", "c", "c", "c", "c">>],
               [NoData EXCEPT !.deadline = "past_date"],
               [NoData EXCEPT !.deadline = "future_date"],
               [NoData EXCEPT !.deadline = "past_string"],
               [NoData EXCEPT !.deadline = "future_string"],
               [NoData EXCEPT !.deadline = "unparsable_string"]}}

\* _extract_scholarship_data(element, source_name, source_config)
ExtractData ==
    /\ dd.phase = "input"
    /\ dd' = [phase |-> "extracted",
              result |-> ExtractScholarshipData(batch.ai, batch.traditional)]
    /\ DedupUnchanged

InitExtract ==
    /\ jobs = [j \in JobIds |-> NoJob]
    /\ ex = [j \in JobIds |-> NoExec]
    /\ store = NoStore
    /\ wk = NoTasks
    /\ \E a \in AiData, t \in TraditionalData : batch = [ai |-> a, traditional |-> t]
    /\ dd = [phase |-> "input"]

NextExtract == ExtractData

SpecExtract == InitExtract /\ [][NextExtract]_vars

(***************************************************************************)
(* Link validation: services/validation_service.py and                     *)
(* utils/link_validator.py                                                 *)
(***************************************************************************)
MaxUrls == 3            \* URLs given to a batch validation
MaxBatchSize == 2       \* batch_size argument of validate_urls_batch

\* x * p/q for a fraction x
Mul(x, p, q) == Frac(x.n * p, x.d * q)

\* min(100.0, max(0.0, score))
Clamp(score) == IF score.n < 0 THEN Zero ELSE IF Gt(score, 100, 1) THEN Frac(100, 1) ELSE score

\* _get_domain_trust_score (lines 308-342) on the domains in play
GetDomainTrustScore(domain) ==
    CASE domain = "scholarships.gov.in" -> 100
      [] domain = "www.scholarships.gov.in" -> 95
      [] domain = "example.org" -> 75
      [] domain = "example.com" -> 60
      [] OTHER -> 40

Domains == {"scholarships.gov.in", "www.scholarships.gov.in", "example.org", "example.com",
            "example.net"}

\* A page body reduced to what the service reads of it: its length and the
\* numbers of scholarship, process, spam and promotional keywords it holds
Contents ==
    {[len |-> 0, keywords |-> 0, process |-> 0, spam |-> 0, promotional |-> 0],
     [len |-> 150, keywords |-> 1, process |-> 0, spam |-> 0, promotional |-> 0],
     [len |-> 1200, keywords |-> 10, process |-> 9, spam |-> 0, promotional |-> 0],
     [len |-> 600, keywords |-> 2, process |-> 1, spam |-> 5, promotional |-> 4]}

\* _get_content_quality_score (lines 344-386)
GetContentQualityScore(content) ==
    IF content.len = 0 THEN 0
    ELSE LET score == 50 + Min(30, content.keywords * 3) + Min(20, content.process * 2)
                         - Min(40, content.spam * 10)
                         + (IF content.len > 1000 THEN 10 ELSE IF content.len > 500 THEN 5 ELSE 0)
         IN Min(100, Max(0, score))

\* _is_suspicious_content (lines 420-438)
IsSuspiciousContent(content) ==
    \/ content.len = 0
    \/ content.promotional > 3
    \/ content.len < 200

\* _determine_status (lines 255-269) with the first test removed
DetermineStatusIgnoresError(status_code, response_time, content) ==
    IF response_time > 10 THEN "slow"
    ELSE IF IsSuspiciousContent(content) THEN "suspicious"
    ELSE IF status_code \in {301, 302, 303, 307, 308} THEN "redirect"
    ELSE "valid"

\* _determine_status (lines 255-269)
DetermineStatus(status_code, response_time, content) ==
    IF status_code >= 400 THEN "broken"
    ELSE IF response_time > 10 THEN "slow"
    ELSE IF IsSuspiciousContent(content) THEN "suspicious"
    ELSE IF status_code \in {301, 302, 303, 307, 308} THEN "redirect"
    ELSE "valid"

\* _calculate_quality_score (lines 271-306)
CalculateQualityScore(response) ==
    LET s1 == Frac(GetDomainTrustScore(response.domain), 1)
        s2 == IF response.status >= 400 THEN Zero
              ELSE IF response.status >= 300 THEN Mul(s1, 8, 10) ELSE s1
        s3 == IF response.time > 10 THEN Mul(s2, 5, 10)
              ELSE IF response.time > 5 THEN Mul(s2, 8, 10) ELSE s2
        s4 == Mul(s3, GetContentQualityScore(response.content), 100)
        s5 == IF response.content_type = "text/html" THEN Mul(s4, 11, 10)
              ELSE IF response.content_type = "application/pdf" THEN Mul(s4, 105, 100)
              ELSE s4
        s6 == IF response.redirected THEN Mul(s5, 9, 10) ELSE s5
    IN Clamp(s6)

\* The ValidationResult of validation_service.py, on the fields in play
ServiceResult(url, status, response_code, quality_score) ==
    [url |-> url, status |-> status, response_code |-> response_code,
     quality_score |-> quality_score]

Returned(result) == [raised |-> FALSE, result |-> result]
Raised == [raised |-> TRUE, result |-> [url |-> "none"]]

\* validate_url (lines 96-234) without the outer handler of lines 219-234
\* The test of validate_url (validation_service.py lines 101-103, and
\* link_validator.py lines 129-131): urlparse finds a scheme and a netloc.
\* u.form is the shape of the URL: "http", "ftp" (another scheme than http or
\* https), "no_scheme", "no_host", or "too_long" (an http URL of more than
\* 2000 characters, the bound of validate_url_format).
WellFormed(u) == u.form \notin {"no_scheme", "no_host"}

\* validate_url_format (link_validator.py lines 325-370), which no caller uses
ValidateUrlFormat(u) == u.form = "http"

\* validate_url reaches session.get (lines 124-129)
FetchIssued(u) == WellFormed(u)

\* The URLs of a list that validate_url requests
FetchedOf(urls) == {urls[k].url : k \in {x \in 1..Len(urls) : FetchIssued(urls[x])}}

ValidateUrlNoOuterHandler(u) ==
    IF ~WellFormed(u) THEN Returned(ServiceResult(u.url, "invalid", 0, Zero))
    ELSE CASE u.fetch = "response" ->
                Returned(ServiceResult(u.url,
                    DetermineStatus(u.response.status, u.response.time, u.response.content),
                    u.response.status, CalculateQualityScore(u.response)))
           [] u.fetch = "client_error" -> Returned(ServiceResult(u.url, "broken", 0, Zero))
           [] u.fetch = "timeout" -> Returned(ServiceResult(u.url, "slow", 0, Zero))
           [] OTHER -> Raised

\* validate_url (lines 96-234).  u.fetch is what session.get and
\* response.text() do: "response" (u.response is read), "client_error"
\* (aiohttp.ClientError), "timeout" (asyncio.TimeoutError) or "unexpected"
\* (any other exception, caught by the outer handler of lines 219-234).
ValidateUrl(u) ==
    IF ~WellFormed(u) THEN Returned(ServiceResult(u.url, "invalid", 0, Zero))
    ELSE CASE u.fetch = "response" ->
                Returned(ServiceResult(u.url,
                    DetermineStatus(u.response.status, u.response.time, u.response.content),
                    u.response.status, CalculateQualityScore(u.response)))
           [] u.fetch = "client_error" -> Returned(ServiceResult(u.url, "broken", 0, Zero))
           [] u.fetch = "timeout" -> Returned(ServiceResult(u.url, "slow", 0, Zero))
           [] OTHER -> Returned(ServiceResult(u.url, "invalid", 0, Zero))

\* The results of one asyncio.gather(..., return_exceptions=True) that are not
\* exceptions, in order (lines 248-252)
RECURSIVE KeepResults(_)
KeepResults(outcomes) ==
    IF outcomes = <<>> THEN <<>>
    ELSE (IF Head(outcomes).raised THEN <<>> ELSE <<Head(outcomes).result>>)
         \o KeepResults(Tail(outcomes))

\* The loop of validate_urls_batch from index i (1-based) on
RECURSIVE BatchFrom(_, _, _, _)
BatchFrom(urls, i, batch_size, results) ==
    IF i > Len(urls) THEN results
    ELSE LET chunk == SubSeq(urls, i, Min(i + batch_size - 1, Len(urls)))
             batch_results == [k \in 1..Len(chunk) |-> ValidateUrl(chunk[k])]
         IN BatchFrom(urls, i + batch_size, batch_size, results \o KeepResults(batch_results))

\* validate_urls_batch (lines 236-253)
ValidateUrlsBatch(urls, batch_size) == BatchFrom(urls, 1, batch_size, <<>>)

\* The ValidationResult of link_validator.py, on the fields in play
LinkResult(url, is_valid, status_code) ==
    [url |-> url, is_valid |-> is_valid, status_code |-> status_code]

\* LinkValidator._fetch_url (link_validator.py, lines 169-231)
FetchUrl(u) ==
    CASE u.fetch = "response" ->
            Returned(LinkResult(u.url, u.response.status < 400, u.response.status))
      [] OTHER -> Returned(LinkResult(u.url, FALSE, 0))

\* validate_multiple_urls (link_validator.py, lines 246-278)
ValidateMultipleUrls(urls) ==
    [i \in 1..Len(urls) |->
        LET r == FetchUrl(urls[i])
        IN IF r.raised THEN LinkResult(urls[i].url, FALSE, 0) ELSE r.result]

StatusCodes == {200, 301, 400, 404, 500}
ResponseTimes == {1, 7, 12}
ContentTypes == {"text/html", "application/pdf", "application/json"}

Responses ==
    [status : StatusCodes, time : ResponseTimes, content : Contents,
     content_type : ContentTypes, domain : Domains, redirected : BOOLEAN]

PlainResponse(status) ==
    [status |-> status, time |-> 1,
     content |-> [len |-> 1200, keywords |-> 10, process |-> 9, spam |-> 0, promotional |-> 0],
     content_type |-> "text/html", domain |-> "example.org", redirected |-> FALSE]

\* What a URL is and does when fetched
Url(name, form, fetch, response) ==
    [url |-> name, form |-> form, fetch |-> fetch, response |-> response]

UrlForms == {"http", "ftp", "no_scheme", "no_host", "too_long"}

\* URLs given to validate_url alone
SingleUrls ==
    {Url("u1", "http", "response", r) : r \in Responses} \cup
    {Url("u1", w, f, PlainResponse(200)) :
        w \in UrlForms, f \in {"response", "client_error", "timeout", "unexpected"}}

\* Behaviours of the URLs of a batch
BatchBehaviours ==
    {Url("u", "http", "response", PlainResponse(200)),
     Url("u", "http", "response", PlainResponse(404)),
     Url("u", "no_scheme", "response", PlainResponse(200)),
     Url("u", "ftp", "client_error", PlainResponse(200)),
     Url("u", "http", "client_error", PlainResponse(200)),
     Url("u", "http", "timeout", PlainResponse(200)),
     Url("u", "http", "unexpected", PlainResponse(200))}

UrlNames == <<"u1", "u2", "u3", "u4", "u5">>

\* The batches of at most n URLs, named by position
UrlBatches(n) ==
    UNION {{[i \in 1..k |-> [b[i] EXCEPT !.url = UrlNames[i]]] :
              b \in [1..k -> BatchBehaviours]} : k \in 0..n}

\* validate_url(url)
validate_url ==
    /\ dd.phase = "input"
    /\ Len(batch.urls) = 1
    /\ \E o \in {ValidateUrl(batch.urls[1])} :
          dd' = [phase |-> "validated", op |-> "validate_url", raised |-> o.raised,
                 results |-> IF o.raised THEN <<>> ELSE <<o.result>>,
                 fetched |-> FetchedOf(batch.urls)]
    /\ DedupUnchanged

\* validate_urls_batch(urls, batch_size)
validate_urls_batch ==
    /\ dd.phase = "input"
    /\ dd' = [phase |-> "validated", op |-> "validate_urls_batch", raised |-> FALSE,
              results |-> ValidateUrlsBatch(batch.urls, batch.batch_size),
              fetched |-> FetchedOf(batch.urls)]
    /\ DedupUnchanged

\* validate_multiple_urls(urls)
validate_multiple_urls ==
    /\ dd.phase = "input"
    /\ dd' = [phase |-> "validated", op |-> "validate_multiple_urls", raised |-> FALSE,
              results |-> ValidateMultipleUrls(batch.urls),
              fetched |-> {batch.urls[k].url : k \in 1..Len(batch.urls)}]
    /\ DedupUnchanged

InitValidate ==
    /\ jobs = [j \in JobIds |-> NoJob]
    /\ ex = [j \in JobIds |-> NoExec]
    /\ store = NoStore
    /\ wk = NoTasks
    /\ \/ \E u \in SingleUrls : batch = [urls |-> <<u>>, batch_size |-> 1]
       \/ \E us \in UrlBatches(MaxUrls), n \in 1..MaxBatchSize :
             batch = [urls |-> us, batch_size |-> n]
    /\ dd = [phase |-> "input"]

NextValidate == validate_url \/ validate_urls_batch \/ validate_multiple_urls

SpecValidate == InitValidate /\ [][NextValidate]_vars

(***************************************************************************)
(* Maintenance of the persisted scholarships: tasks/validation_tasks.py    *)
(***************************************************************************)
MaxScholarships == 1    \* persisted scholarships
MaxAge == 31            \* days counted since a scholarship's last validation

InvalidCutoffDays == 30

ScholarshipIds == 1..MaxScholarships

\* A row of the scholarships table: last_validated is the number of days since
\* the last validation, -1 for NULL; expired tells deadline < utcnow()
NewScholarship ==
    [present |-> TRUE, is_valid |-> TRUE, last_validated |-> -1, expired |-> FALSE,
     is_active |-> TRUE]

TableUnchanged == UNCHANGED <<jobs, ex, store, wk>>

\* One day passes; the deadline of any scholarship may pass with it
DayPasses ==
    /\ \E passing \in SUBSET ScholarshipIds :
          batch' = [k \in ScholarshipIds |->
                      [batch[k] EXCEPT
                          !.last_validated = IF @ = -1 THEN -1 ELSE Min(@ + 1, MaxAge),
                          !.expired = @ \/ k \in passing]]
    /\ \E k \in ScholarshipIds : batch[k].last_validated < MaxAge
    /\ UNCHANGED dd
    /\ TableUnchanged

\* validate_scholarship_links(scholarship_ids) (lines 25-87): is_valid is what
\* the validation of the scholarship's URL gives
validate_scholarship_links ==
    /\ \E ids \in SUBSET ScholarshipIds \ {{}}, valid \in [ScholarshipIds -> BOOLEAN] :
          batch' = [k \in ScholarshipIds |->
                      IF k \in ids /\ batch[k].present
                      THEN [batch[k] EXCEPT !.is_valid = valid[k], !.last_validated = 0]
                      ELSE batch[k]]
    /\ UNCHANGED dd
    /\ TableUnchanged

\* The rows cleanup_invalid_scholarships selects as invalid_scholarships
\* (lines 150-155)
InvalidScholarships ==
    {k \in ScholarshipIds :
        /\ batch[k].present
        /\ ~batch[k].is_valid
        /\ batch[k].last_validated # -1
        /\ batch[k].last_validated >= InvalidCutoffDays}

\* cleanup_invalid_scholarships (lines 138-186): db.delete on the invalid
\* rows, is_active = False on the expired rows that remain
cleanup_invalid_scholarships ==
    /\ LET removed == InvalidScholarships
           expired_scholarships ==
               {k \in ScholarshipIds \ removed :
                   batch[k].present /\ batch[k].expired /\ batch[k].is_active}
       IN /\ batch' = [k \in ScholarshipIds |->
                         IF k \in removed THEN [batch[k] EXCEPT !.present = FALSE]
                         ELSE IF k \in expired_scholarships
                         THEN [batch[k] EXCEPT !.is_active = FALSE]
                         ELSE batch[k]]
          /\ dd' = [removed_invalid |-> Cardinality(removed),
                    deactivated_expired |-> Cardinality(expired_scholarships)]
    /\ TableUnchanged

InitCleanup ==
    /\ jobs = [j \in JobIds |-> NoJob]
    /\ ex = [j \in JobIds |-> NoExec]
    /\ store = NoStore
    /\ wk = NoTasks
    /\ batch = [k \in ScholarshipIds |-> NewScholarship]
    /\ dd = [removed_invalid |-> 0, deactivated_expired |-> 0]

NextCleanup == DayPasses \/ validate_scholarship_links \/ cleanup_invalid_scholarships

SpecCleanup == InitCleanup /\ [][NextCleanup]_vars

(***************************************************************************)
(* Deadline extraction: utils/date_parser.py.  A text is a sequence of     *)
(* sentences, a sentence a sequence of lower-case words.                   *)
(***************************************************************************)
MaxSentences == 2       \* sentences of a text given to extract_deadline_from_text

\* datetime.now(): a day with a time of day after midnight
Now == [y |-> 2026, m |-> 11, d |-> 1]

NoDate == [y |-> 0, m |-> 0, d |-> 0]

IsLeap(y) == (y % 4 = 0 /\ y % 100 # 0) \/ y % 400 = 0

DaysInMonth(y, m) ==
    IF m = 2 THEN (IF IsLeap(y) THEN 29 ELSE 28)
    ELSE IF m \in {4, 6, 9, 11} THEN 30 ELSE 31

\* The days from 0001-01-01 to the date, as datetime.toordinal counts them
RECURSIVE DaysBeforeMonth(_, _)
DaysBeforeMonth(y, m) == IF m = 1 THEN 0 ELSE DaysBeforeMonth(y, m - 1) + DaysInMonth(y, m - 1)
Ordinal(date) ==
    LET y == date.y - 1
    IN y * 365 + (y \div 4) - (y \div 100) + (y \div 400) + DaysBeforeMonth(date.y, date.m)
       + date.d

\* int(...) of the groups (\d{1,2}) and (\d{2,4}); 0 for a word that is no number
NumberOf(word) ==
    CASE word = "15" -> 15
      [] word = "31" -> 31
      [] word = "32" -> 32
      [] word = "2019" -> 2019
      [] word = "2026" -> 2026
      [] word = "2031" -> 2031
      [] OTHER -> 0

\* month_mapping of parse_indian_date with its partial matches (lines 114-127,
\* 142-148); 0 for no month
MonthOf(word) ==
    CASE word \in {"august", "aug"} -> 8
      [] word \in {"december", "dec"} -> 12
      [] word \in {"june", "jun"} -> 6
      [] OTHER -> 0

\* parse_indian_date (lines 111-161) on a sentence: the first day, month word
\* and year in a row, as a date, or NoDate when there is no such row, the word
\* is no month or the day does not exist in the month
ParseIndianDate(sentence) ==
    LET starts == {i \in 1..(Len(sentence) - 2) :
                      /\ NumberOf(sentence[i]) \in 1..99
                      /\ NumberOf(sentence[i + 1]) = 0
                      /\ NumberOf(sentence[i + 2]) > 0}
    IN IF starts = {} THEN NoDate
       ELSE LET i == CHOOSE x \in starts : \A z \in starts : x <= z
                day == NumberOf(sentence[i])
                month == MonthOf(sentence[i + 1])
                stated == NumberOf(sentence[i + 2])
                year == IF stated < 50 THEN stated + 2000
                        ELSE IF stated < 100 THEN stated + 1900 ELSE stated
            IN IF month = 0 \/ day > DaysInMonth(year, month) THEN NoDate
               ELSE [y |-> year, m |-> month, d |-> day]

\* parse_relative_date (lines 58-108) on the words in play
ParseRelativeDate(sentence) ==
    IF \E i \in 1..Len(sentence) : sentence[i] = "today" THEN Now ELSE NoDate

\* parse_date (lines 11-55): a sentence that is exactly day, month, year fits
\* the formats '%d %B %Y' and '%d %b %Y'; then the relative and the Indian
\* forms are tried
ParseDate(sentence) ==
    IF /\ Len(sentence) = 3
       /\ NumberOf(sentence[1]) \in 1..31 /\ MonthOf(sentence[2]) # 0
       /\ NumberOf(sentence[3]) >= 1000
       /\ NumberOf(sentence[1]) <= DaysInMonth(NumberOf(sentence[3]), MonthOf(sentence[2]))
    THEN [y |-> NumberOf(sentence[3]), m |-> MonthOf(sentence[2]), d |-> NumberOf(sentence[1])]
    ELSE IF ParseRelativeDate(sentence) # NoDate THEN ParseRelativeDate(sentence)
    ELSE ParseIndianDate(sentence)

DeadlineKeywords == {"deadline:", "by", "until", "before"}

IsDeadlineSentence(sentence) == \E i \in 1..Len(sentence) : sentence[i] \in DeadlineKeywords

\* extract_deadline_from_text (lines 164-210): the date of the first deadline
\* sentence that holds one (the date patterns of lines 191-208 find the same
\* day, month, year row as parse_indian_date and give it to parse_date)
RECURSIVE ExtractDeadlineFromText(_)
ExtractDeadlineFromText(text) ==
    IF text = <<>> THEN NoDate
    ELSE IF IsDeadlineSentence(Head(text)) /\ ParseDate(Head(text)) # NoDate
    THEN ParseDate(Head(text))
    ELSE ExtractDeadlineFromText(Tail(text))

\* is_valid_deadline (lines 213-228), now being after midnight: a date is
\* before now - 1 day when its day is before today, and after now + 5 years
\* when its day is more than 365 * 5 days after today
IsValidDeadline(date) ==
    /\ date # NoDate
    /\ ~(Ordinal(date) < Ordinal(Now))
    /\ ~(Ordinal(date) > Ordinal(Now) + 365 * 5)

\* Sentences of the texts in play
DeadlineSentences ==
    {<<k, "scholarship">> : k \in {"deadline:", "apply"}} \cup
    {<<k, day, month, year>> :
        k \in {"deadline:", "apply", "by"}, day \in {"15", "31"},
        month \in {"august", "dec", "june", "foo"}, year \in {"2019", "2026", "2031", "32"}}

\* extract_deadline_from_text(text)
ExtractDeadline ==
    /\ dd.phase = "input"
    /\ dd' = [phase |-> "extracted", result |-> ExtractDeadlineFromText(batch)]
    /\ DedupUnchanged

InitDeadline ==
    /\ jobs = [j \in JobIds |-> NoJob]
    /\ ex = [j \in JobIds |-> NoExec]
    /\ store = NoStore
    /\ wk = NoTasks
    /\ batch \in UNION {[1..n -> DeadlineSentences] : n \in 0..MaxSentences}
    /\ dd = [phase |-> "input"]

NextDeadline == ExtractDeadline

SpecDeadline == InitDeadline /\ [][NextDeadline]_vars

(***************************************************************************)
(* Amount parsing: utils/amount_parser.py.  A text is a sequence of        *)
(* lower-case words separated by blanks.                                   *)
(***************************************************************************)
MaxAmountWords == 5     \* words of a text given to parse_amount

NoAmount == -1

\* Decimal(...) of a word matching \d+(?:,\d+)*, NoAmount for any other word
AmountOf(word) ==
    CASE word = "5" -> 5
      [] word = "10" -> 10
      [] OTHER -> NoAmount

IsNumber(word) == AmountOf(word) # NoAmount

\* self.word_to_number (lines 33-42) on the words in play, 0 for a word it lacks
WordToNumber(word) ==
    CASE word = "five" -> 5
      [] word = "lakh" -> 100000
      [] word = "crore" -> 10000000
      [] OTHER -> 0

\* The words the pattern (?:₹|rs\.?|rupees?|inr) matches the end of
CurrencyWords == {"₹", "offers"}

\* The words matching \w+
IsWord(word) == word # "₹"

Multiplier(unit) == IF unit = "lakh" THEN 100000 ELSE 10000000

Contains(text, word) == \E i \in 1..Len(text) : text[i] = word

\* The least index i of text with P(i), 0 when there is none
FirstIndex(text, P(_)) ==
    IF \E i \in 1..Len(text) : P(i)
    THEN CHOOSE i \in 1..Len(text) : P(i) /\ \A z \in 1..(i - 1) : ~P(z)
    ELSE 0

\* _parse_structured_amount (lines 78-88)
ParseStructuredAmount(text) ==
    LET Hit(i) == text[i] \in CurrencyWords /\ i < Len(text) /\ IsNumber(text[i + 1])
        i == FirstIndex(text, Hit)
    IN IF i = 0 THEN NoAmount ELSE AmountOf(text[i + 1])

\* re.findall(r'(\w+)\s+unit', text) from index i on: the words before unit,
\* the matches not overlapping
RECURSIVE FindAllBefore(_, _, _)
FindAllBefore(text, unit, i) ==
    IF i >= Len(text) THEN <<>>
    ELSE IF IsWord(text[i]) /\ text[i + 1] = unit
    THEN <<text[i]>> \o FindAllBefore(text, unit, i + 2)
    ELSE FindAllBefore(text, unit, i + 1)

\* _parse_word_amount (lines 90-117): the first match, lakh patterns first,
\* that is a known word, times the multiplier of lines 108-115
ParseWordAmount(text) ==
    LET matches == SelectSeq(FindAllBefore(text, "lakh", 1) \o FindAllBefore(text, "crore", 1),
                             LAMBDA w : WordToNumber(w) # 0)
    IN IF matches = <<>> THEN NoAmount
       ELSE WordToNumber(Head(matches))
            * (IF Contains(text, "lakh") THEN Multiplier("lakh") ELSE Multiplier("crore"))

\* _parse_numeric_amount (lines 119-151): crores, then lakhs, then the first
\* plain number
ParseNumericAmount(text) ==
    LET Crore(i) == IsNumber(text[i]) /\ i < Len(text) /\ text[i + 1] = "crore"
        Lakh(i) == IsNumber(text[i]) /\ i < Len(text) /\ text[i + 1] = "lakh"
        Plain(i) == IsNumber(text[i])
    IN IF FirstIndex(text, Crore) # 0
       THEN AmountOf(text[FirstIndex(text, Crore)]) * Multiplier("crore")
       ELSE IF FirstIndex(text, Lakh) # 0
       THEN AmountOf(text[FirstIndex(text, Lakh)]) * Multiplier("lakh")
       ELSE IF FirstIndex(text, Plain) # 0 THEN AmountOf(text[FirstIndex(text, Plain)])
       ELSE NoAmount

\* _parse_range_amount (lines 153-169): the second number of 'X to Y', else of
\* 'between X and Y'
ParseRangeAmount(text) ==
    LET To(i) == /\ i + 2 <= Len(text)
                 /\ IsNumber(text[i]) /\ text[i + 1] = "to" /\ IsNumber(text[i + 2])
        Between(i) == /\ i + 3 <= Len(text)
                      /\ text[i] = "between" /\ IsNumber(text[i + 1])
                      /\ text[i + 2] = "and" /\ IsNumber(text[i + 3])
    IN IF FirstIndex(text, To) # 0 THEN AmountOf(text[FirstIndex(text, To) + 2])
       ELSE IF FirstIndex(text, Between) # 0 THEN AmountOf(text[FirstIndex(text, Between) + 3])
       ELSE NoAmount

\* parse_amount (lines 44-76): the first strategy that gives an amount
ParseAmount(text) ==
    IF text = <<>> THEN NoAmount
    ELSE IF ParseStructuredAmount(text) # NoAmount THEN ParseStructuredAmount(text)
    ELSE IF ParseWordAmount(text) # NoAmount THEN ParseWordAmount(text)
    ELSE IF ParseNumericAmount(text) # NoAmount THEN ParseNumericAmount(text)
    ELSE ParseRangeAmount(text)

AmountWords ==
    {"₹", "offers", "scholarship", "5", "10", "five", "lakh", "crore", "to", "between", "and"}

\* The texts of at most MaxAmountWords words in which no unit follows a unit
\* ('lakh crore' is 10^12, beyond 32-bit integers)
AmountTexts ==
    {t \in UNION {[1..n -> AmountWords] : n \in 0..MaxAmountWords} :
        \A i \in 1..(Len(t) - 1) : ~(WordToNumber(t[i]) > 5 /\ WordToNumber(t[i + 1]) > 5)}

\* parse_amount(text)
parse_amount ==
    /\ dd.phase = "input"
    /\ dd' = [phase |-> "parsed", result |-> ParseAmount(batch)]
    /\ DedupUnchanged

InitAmount ==
    /\ jobs = [j \in JobIds |-> NoJob]
    /\ ex = [j \in JobIds |-> NoExec]
    /\ store = NoStore
    /\ wk = NoTasks
    /\ batch \in AmountTexts
    /\ dd = [phase |-> "input"]

NextAmount == parse_amount

SpecAmount == InitAmount /\ [][NextAmount]_vars

(***************************************************************************)
(* Source discovery: services/dynamic_crawler.py.  batch holds the         *)
(* arguments of discover_scholarship_sources, dd the crawler: visited_urls,*)
(* the URLs fetched so far, and the stack of the _crawl_source calls.      *)
(***************************************************************************)
MaxSeeds == 2           \* seed URLs of a discovery run
MaxDepth == 2           \* max_depth argument
MaxCrawlPages == 3      \* max_pages_per_source argument
MaxLinks == 2           \* relevant links found on one page

LinkLimit == 10

\* URLs of one site; the second is the first in another scheme and letter case
CrawlUrls == {"https://a.in/s", "HTTP://A.IN/s", "https://a.in/t"}

\* The same URL up to scheme and letter case
SameUrlKey(url) == IF url = "HTTP://A.IN/s" THEN "https://a.in/s" ELSE url

\* Sequences of distinct URLs of at most n members: list(set(relevant_links))
DistinctUrlSeqs(n) ==
    UNION {{q \in [1..k -> CrawlUrls] : \A i, j \in 1..k : i # j => q[i] # q[j]} : k \in 0..n}

Frame(url, max_depth) == [url |-> url, max_depth |-> max_depth, pc |-> "goto", links |-> <<>>]

Pop(stack) == SubSeq(stack, 1, Len(stack) - 1)

\* The loop of discover_scholarship_sources (lines 105-107) calls
\* _crawl_source on the next seed; the call returns at once when the page
\* ceiling is reached (lines 127-128)
CrawlSeed ==
    /\ dd.stack = <<>>
    /\ dd.seed <= Len(batch.seed_urls)
    /\ dd' = [dd EXCEPT !.seed = @ + 1,
                        !.stack = IF Cardinality(dd.visited_urls) >= batch.max_pages THEN <<>>
                                  ELSE <<Frame(batch.seed_urls[dd.seed], batch.max_depth)>>]
    /\ DedupUnchanged

\* page.goto(base_url) to the extraction of the links (lines 130-147): the
\* page is fetched; then either an exception ends the call, or the URL joins
\* visited_urls and, if max_depth > 0, the links of the page are listed
Goto ==
    /\ dd.stack # <<>>
    /\ LET n == Len(dd.stack)
           top == dd.stack[n]
           fetched == [dd EXCEPT !.fetched = @ \cup {top.url},
                                 !.again = @ \/ top.url \in dd.fetched,
                                 !.same_again =
                                     @ \/ SameUrlKey(top.url) \in {SameUrlKey(u) : u \in dd.fetched}]
       IN /\ top.pc = "goto"
          /\ \/ dd' = [fetched EXCEPT !.stack = Pop(dd.stack)]
             \/ \E links \in DistinctUrlSeqs(MaxLinks) :
                   dd' = [fetched EXCEPT
                            !.visited_urls = @ \cup {top.url},
                            !.stack = IF top.max_depth > 0
                                      THEN [dd.stack EXCEPT
                                              ![n].pc = "links",
                                              ![n].links = SubSeq(links, 1, Min(Len(links), LinkLimit))]
                                      ELSE Pop(dd.stack)]
    /\ DedupUnchanged

\* The loop over the links without the tests of line 150
NextLinkUnchecked ==
    /\ dd.stack # <<>>
    /\ LET n == Len(dd.stack)
           top == dd.stack[n]
       IN /\ top.pc = "links"
          /\ IF top.links = <<>> THEN dd' = [dd EXCEPT !.stack = Pop(dd.stack)]
             ELSE dd' = [dd EXCEPT !.stack = [dd.stack EXCEPT ![n].links = Tail(top.links)]
                                             \o <<Frame(Head(top.links), top.max_depth - 1)>>]
    /\ DedupUnchanged

\* The loop over the links (lines 149-152): a link that is not in visited_urls
\* is crawled with max_depth - 1 while the page ceiling is not reached; the
\* call ends with the loop (lines 154-157)
NextLink ==
    /\ dd.stack # <<>>
    /\ LET n == Len(dd.stack)
           top == dd.stack[n]
       IN /\ top.pc = "links"
          /\ IF top.links = <<>> THEN dd' = [dd EXCEPT !.stack = Pop(dd.stack)]
             ELSE IF /\ Head(top.links) \notin dd.visited_urls
                     /\ Cardinality(dd.visited_urls) < batch.max_pages
             THEN dd' = [dd EXCEPT !.stack = [dd.stack EXCEPT ![n].links = Tail(top.links)]
                                             \o <<Frame(Head(top.links), top.max_depth - 1)>>]
             ELSE dd' = [dd EXCEPT !.stack = [dd.stack EXCEPT ![n].links = Tail(top.links)]]
    /\ DedupUnchanged

InitCrawl ==
    /\ jobs = [j \in JobIds |-> NoJob]
    /\ ex = [j \in JobIds |-> NoExec]
    /\ store = NoStore
    /\ wk = NoTasks
    /\ \E seeds \in UNION {[1..k -> CrawlUrls] : k \in 1..MaxSeeds},
          d \in 0..MaxDepth, m \in 1..MaxCrawlPages :
          batch = [seed_urls |-> seeds, max_depth |-> d, max_pages |-> m]
    /\ dd = [visited_urls |-> {}, fetched |-> {}, again |-> FALSE, same_again |-> FALSE,
             seed |-> 1, stack |-> <<>>]

NextCrawl == CrawlSeed \/ Goto \/ NextLink

SpecCrawl == InitCrawl /\ [][NextCrawl]_vars

(***************************************************************************)
(* get_duplicate_groups on an arbitrary duplicate relation: batch is the   *)
(* set of the index pairs that detect_duplication reports as duplicates.   *)
(***************************************************************************)
MaxNodes == 5           \* scholarships of a list given to get_duplicate_groups

\* find_duplicates_in_batch (lines 349-371) for the duplicate relation edges
DuplicatePairs(edges, n) == SelectSeq(PairsFrom(1, 2, n), LAMBDA p : p \in edges)

\* get_duplicate_groups(scholarships)
get_duplicate_groups ==
    /\ dd.phase = "input"
    /\ dd' = [phase |-> "grouped",
              groups |-> GroupsOfPairs(DuplicatePairs(batch, MaxNodes), MaxNodes)]
    /\ DedupUnchanged

InitGroup ==
    /\ jobs = [j \in JobIds |-> NoJob]
    /\ ex = [j \in JobIds |-> NoExec]
    /\ store = NoStore
    /\ wk = NoTasks
    /\ batch \in SUBSET {p \in (1..MaxNodes) \X (1..MaxNodes) : p[1] < p[2]}
    /\ dd = [phase |-> "input"]

NextGroup == get_duplicate_groups

SpecGroup == InitGroup /\ [][NextGroup]_vars

(***************************************************************************)
(* LinkValidator.batch_validate step by step: the loop over the batches,   *)
(* the _fetch_url tasks that asyncio.gather runs concurrently, and the     *)
(* sleep between two batches.  dd.i is the 1-based index of the first URL  *)
(* of the current batch, dd.pending the tasks of the gather that have not  *)
(* reached session.get, dd.in_flight those inside it, dd.finished the      *)
(* indices whose task has returned, dd.delays the sleeps done.             *)
(***************************************************************************)
\* The last index of the batch that starts at index i
BatchEnd(i) == Min(i + batch.batch_size - 1, Len(batch.urls))

\* for i in range(0, len(urls), batch_size): batch = urls[i:i + batch_size];
\* validate_multiple_urls(batch) creates one _fetch_url task per URL
\* (link_validator.py lines 431-434 and 262-264)
BatchBegin ==
    /\ dd.pc = "loop"
    /\ IF dd.i > Len(batch.urls)
       THEN dd' = [dd EXCEPT !.pc = "done"]
       ELSE dd' = [dd EXCEPT !.pc = "gather", !.pending = dd.i..BatchEnd(dd.i)]
    /\ DedupUnchanged

\* A task of the gather enters session.get (line 189)
FetchBegin ==
    /\ dd.pc = "gather"
    /\ \E k \in dd.pending :
          dd' = [dd EXCEPT !.pending = @ \ {k}, !.in_flight = @ \cup {k},
                           !.peak = Max(@, Cardinality(dd.in_flight) + 1)]
    /\ DedupUnchanged

\* A task of the gather returns its ValidationResult (lines 188-231)
FetchEnd ==
    /\ dd.pc = "gather"
    /\ \E k \in dd.in_flight :
          dd' = [dd EXCEPT !.in_flight = @ \ {k}, !.finished = @ \cup {k}]
    /\ DedupUnchanged

\* asyncio.gather returns when every task has; the results of the batch are
\* appended, and asyncio.sleep(1) follows when URLs remain (lines 264-278 and
\* 435-440) (variant without the sleep)
GatherReturnNoDelay ==
    /\ dd.pc = "gather"
    /\ dd.pending = {} /\ dd.in_flight = {}
    /\ dd' = [dd EXCEPT
                 !.all_results = @ \o ValidateMultipleUrls(SubSeq(batch.urls, dd.i, BatchEnd(dd.i))),
                 !.i = dd.i + batch.batch_size,
                 !.pc = "loop"]
    /\ DedupUnchanged

\* asyncio.gather returns when every task has; the results of the batch are
\* appended, and asyncio.sleep(1) follows when URLs remain (lines 264-278 and
\* 435-440)
GatherReturn ==
    /\ dd.pc = "gather"
    /\ dd.pending = {} /\ dd.in_flight = {}
    /\ dd' = [dd EXCEPT
                 !.all_results = @ \o ValidateMultipleUrls(SubSeq(batch.urls, dd.i, BatchEnd(dd.i))),
                 !.i = IF dd.i - 1 + batch.batch_size < Len(batch.urls)
                       THEN dd.i ELSE dd.i + batch.batch_size,
                 !.pc = IF dd.i - 1 + batch.batch_size < Len(batch.urls)
                        THEN "sleep" ELSE "loop"]
    /\ DedupUnchanged

\* await asyncio.sleep(1) returns (line 440)
BatchDelay ==
    /\ dd.pc = "sleep"
    /\ dd' = [dd EXCEPT !.pc = "loop", !.i = dd.i + batch.batch_size, !.delays = @ + 1]
    /\ DedupUnchanged

\* URLs answered by a page, an error page or a timeout
BatchValidateUrls ==
    {us \in UrlBatches(MaxUrls) :
        \A k \in 1..Len(us) : us[k].form = "http" /\ us[k].fetch \in {"response", "timeout"}}

InitBatchValidate ==
    /\ jobs = [j \in JobIds |-> NoJob]
    /\ ex = [j \in JobIds |-> NoExec]
    /\ store = NoStore
    /\ wk = NoTasks
    /\ \E us \in BatchValidateUrls, n \in 1..MaxBatchSize :
          batch = [urls |-> us, batch_size |-> n]
    /\ dd = [pc |-> "loop", i |-> 1, pending |-> {}, in_flight |-> {}, finished |-> {},
             peak |-> 0, delays |-> 0, all_results |-> <<>>]

NextBatchValidate == BatchBegin \/ FetchBegin \/ FetchEnd \/ GatherReturn \/ BatchDelay

SpecBatchValidate == InitBatchValidate /\ [][NextBatchValidate]_vars

(***************************************************************************)
(* Claims on the job life cycle                                            *)
(***************************************************************************)
Terminal == {"completed", "failed", "cancelled"}

\* C1: a job whose status is completed, failed or cancelled never
\* changes status again, whatever submit, execute, fail, cancel and retry
\* operations follow.
C1_TerminalIsFinal ==
    [][\A j \in JobIds :
          jobs[j].status \in Terminal => jobs'[j].status = jobs[j].status]_vars

\* C2: retry_count <= max_retries for every job; retry_count changes, and a
\* failed job becomes pending, only by a retry request on a job that is failed
\* with retry_count < max_retries; a failed job with retry_count = max_retries
\* stays failed.
C2_RetryBounded ==
    /\ [](\A j \in JobIds : jobs[j].retry_count <= jobs[j].max_retries)
    /\ [][\A j \in JobIds :
            /\ (jobs[j].status # "absent" /\ jobs'[j].retry_count # jobs[j].retry_count) =>
                  /\ jobs[j].status = "failed"
                  /\ jobs[j].retry_count < jobs[j].max_retries
                  /\ jobs'[j].retry_count = jobs[j].retry_count + 1
                  /\ jobs'[j].status = "pending"
            /\ (jobs[j].status = "failed" /\ jobs[j].retry_count >= jobs[j].max_retries) =>
                  /\ jobs'[j].status = "failed"
                  /\ jobs'[j].retry_count = jobs[j].retry_count]_vars

\* Witness C2: a failed job that has used all its retries
C2_Witness ==
    \E j \in JobIds :
        /\ jobs[j].status = "failed"
        /\ jobs[j].retry_count = jobs[j].max_retries
        /\ jobs[j].max_retries = DefaultMaxRetries

\* C3: a completed job's counters reconcile:
\* items_saved + items_rejected <= items_scraped.
C3_CountersReconcile ==
    \A j \in JobIds :
        jobs[j].status = "completed" =>
            jobs[j].items_saved + jobs[j].items_rejected <= jobs[j].items_scraped

\* Witness C3: a completed job that scraped several items and saved some, not all
C3_Witness ==
    \E j \in JobIds :
        /\ jobs[j].status = "completed"
        /\ jobs[j].items_saved >= 1
        /\ jobs[j].items_scraped > jobs[j].items_saved

C6_CancelStopsFetches ==
    [][\A j \in JobIds :
          jobs[j].status = "cancelled" =>
              /\ ex'[j].fetches = ex[j].fetches
              /\ ex'[j].pc = "killed" => ex[j].pc \notin {"nav_wait", "page_wait", "task_scrape"}]_vars

(***************************************************************************)
(* Claims on pagination                                                    *)
(***************************************************************************)
\* C7: with pagination enabled and no page error, a ceiling
\* N = min(max_pages, configured max_pages) >= 1 and a source of at least N
\* pages, scrape_scholarships makes exactly N page-extraction calls.
C7_ExactlyNExtractions ==
    \A j \in JobIds :
        LET N == PageCeiling(ex[j].max_pages, ex[j].cfg) IN
        (/\ ex[j].kind = "direct" /\ ex[j].pc = "returned"
         /\ ex[j].cfg.enabled /\ ~ex[j].page_error
         /\ N >= 1 /\ ex[j].src_pages >= N) => ex[j].calls = N

\* Witness C7: max_pages = 3 configured, a source of five pages, three calls
C7_Witness ==
    \E j \in JobIds :
        /\ ex[j].kind = "direct" /\ ex[j].pc = "returned"
        /\ ex[j].cfg.enabled /\ ex[j].cfg.max_pages = 3 /\ ex[j].max_pages = DefaultMaxPages
        /\ ex[j].src_pages = 5 /\ ~ex[j].page_error
        /\ ex[j].calls = 3


(***************************************************************************)
(* Claims on duplicate detection                                           *)
(***************************************************************************)
SameUrl == batch[1].url # NoUrl /\ batch[2].url # NoUrl
           /\ NormalizeUrl(batch[1].url) = NormalizeUrl(batch[2].url)

\* C8 (as stated): two records whose URLs are both present and normalise to
\* the same URL are reported as duplicates, whatever their other fields.
C8_SameUrlIsDuplicate ==
    (dd.phase = "detected" /\ SameUrl) => dd.result.is_duplicate

\* C8 (amended): two records whose URLs are both present and normalise to the
\* same URL are reported as duplicates when every other field compared has a
\* similarity of at least 0.8, in particular when no other field is compared.
C8_SameUrlAndSimilarRest ==
    (/\ dd.phase = "detected"
     /\ SameUrl
     /\ \A f \in DOMAIN dd.result.field_similarities :
           f # "url" => Ge(dd.result.field_similarities[f], ThresholdNum, ThresholdDen))
    => /\ dd.result.is_duplicate
       /\ dd.result.field_similarities["url"] = One
       /\ "url" \in dd.result.matching_fields

C8_Witness ==
    /\ dd.phase = "detected"
    /\ SameUrl
    /\ batch[1].url # batch[2].url
    /\ "title" \in DOMAIN dd.result.field_similarities
    /\ "deadline" \in DOMAIN dd.result.field_similarities
    /\ batch[1].title # batch[2].title
    /\ batch[1].deadline # batch[2].deadline
    /\ \A f \in DOMAIN dd.result.field_similarities :
          Ge(dd.result.field_similarities[f], ThresholdNum, ThresholdDen)
    /\ dd.result.is_duplicate

Members(groups) == UNION {SeqToSet(groups[g]) : g \in 1..Len(groups)}

\* C9: whatever the batch and the strategy, the output of
\* deduplicate_scholarships has no duplicate group of two or more records, and
\* deduplicating it again returns it unchanged.
C9_DeduplicationIdempotent ==
    dd.phase = "regrouped" =>
        /\ \A g \in 1..Len(dd.groups_again) : Len(dd.groups_again[g]) < 2
        /\ dd.out_again = dd.out

C9_Witness ==
    /\ dd.phase = "regrouped"
    /\ \E g \in 1..Len(dd.groups) : Len(dd.groups[g]) >= 3
    /\ Len(dd.out) >= 2
    /\ dd.out_again = dd.out

\* C10: for every duplicate group, deduplicate_scholarships keeps exactly one
\* member and removes the others; a record in no group is kept.
C10_OneKeptPerGroup ==
    dd.phase = "deduplicated" =>
        /\ \A g \in 1..Len(dd.groups) :
              Cardinality(SeqToSet(dd.groups[g]) \cap SeqToSet(dd.kept)) = 1
        /\ \A x \in 1..Len(batch) : x \notin Members(dd.groups) => x \in SeqToSet(dd.kept)
        /\ Len(dd.out) = Len(dd.kept)
        /\ \A x \in 1..Len(dd.kept) : dd.out[x] = batch[dd.kept[x]]

C10_Witness ==
    /\ dd.phase = "deduplicated"
    /\ Len(dd.groups) = 1
    /\ Len(dd.groups[1]) = 3
    /\ Len(batch) = 4
    /\ Len(dd.out) = 2


(***************************************************************************)
(* Claims on the extraction of a candidate                                 *)
(***************************************************************************)
\* C11: a record accepted by _clean_and_validate_data has, as emitted, a title
\* of at least 10 characters and a description of at least 20 characters, and
\* a candidate whose title has fewer than 10 characters is dropped.
C11_EmittedLengths ==
    dd.phase = "extracted" =>
        /\ dd.result.accepted =>
              /\ Len(dd.result.title) >= MinTitleLen
              /\ Len(dd.result.description) >= MinDescriptionLen
        /\ (~batch.ai.raises
            /\ Len(MergeExtractionResults(batch.ai.data, batch.traditional).title) < MinTitleLen)
           => ~dd.result.accepted

\* C14: when the AI backend raises, _extract_scholarship_data returns the
\* record of the rule-based extraction alone whenever that record passes the
\* cleaning gate.
C14_AiFailureKeepsCandidate ==
    (dd.phase = "extracted" /\ batch.ai.raises
     /\ CleanAndValidateData(batch.traditional).accepted)
    => dd.result = CleanAndValidateData(batch.traditional)


(***************************************************************************)
(* Claims on link validation                                               *)
(***************************************************************************)
\* C12: validate_url on a URL whose fetch returns a status of 400 or more
\* (404 among them) returns a result with status broken and quality score 0,
\* and raises no exception.
C12_ErrorStatusIsBroken ==
    (dd.phase = "validated" /\ dd.op = "validate_url"
     /\ WellFormed(batch.urls[1]) /\ batch.urls[1].fetch = "response"
     /\ batch.urls[1].response.status >= 400)
    => /\ ~dd.raised
       /\ Len(dd.results) = 1
       /\ dd.results[1].status = "broken"
       /\ dd.results[1].quality_score = Zero

C12_Witness ==
    /\ dd.phase = "validated" /\ dd.op = "validate_url"
    /\ WellFormed(batch.urls[1]) /\ batch.urls[1].fetch = "response"
    /\ batch.urls[1].response.status = 404
    /\ batch.urls[1].response.time > 10
    /\ batch.urls[1].response.domain = "scholarships.gov.in"
    /\ dd.results[1].status = "broken"

\* C13: a batch validation (validate_urls_batch, validate_multiple_urls)
\* returns one result per input URL, in input order, and raises no exception,
\* whatever the fetches do.
C13_OneResultPerUrl ==
    (dd.phase = "validated" /\ dd.op \in {"validate_urls_batch", "validate_multiple_urls"})
    => /\ ~dd.raised
       /\ Len(dd.results) = Len(batch.urls)
       /\ \A i \in 1..Len(batch.urls) : dd.results[i].url = batch.urls[i].url

C13_Witness ==
    /\ dd.phase = "validated" /\ dd.op = "validate_urls_batch"
    /\ Len(batch.urls) = MaxUrls /\ batch.batch_size < MaxUrls
    /\ \E i, j, k \in 1..Len(batch.urls) :
          /\ batch.urls[i].fetch = "timeout" /\ WellFormed(batch.urls[i])
          /\ batch.urls[j].fetch = "unexpected" /\ WellFormed(batch.urls[j])
          /\ batch.urls[k].fetch = "client_error" /\ WellFormed(batch.urls[k])
    /\ Len(dd.results) = MaxUrls


(***************************************************************************)
(* Claims on the maintenance of the persisted scholarships                 *)
(***************************************************************************)
\* C15: no operation removes a persisted scholarship from the store; a
\* scholarship whose deadline has passed or that has been invalid for a
\* sustained period stays in the store (none of the rows in play is a
\* confirmed duplicate).
C15_NeverHardDeleted ==
    [][\A k \in ScholarshipIds : batch[k].present => batch'[k].present]_vars


(***************************************************************************)
(* Claims on the deadline extraction                                       *)
(***************************************************************************)
\* The date stated by a sentence of the form keyword, day, month, year
StatedDate(sentence) ==
    [y |-> IF NumberOf(sentence[4]) < 50 THEN NumberOf(sentence[4]) + 2000
           ELSE NumberOf(sentence[4]),
     m |-> MonthOf(sentence[3]), d |-> NumberOf(sentence[2])]

\* C16: extract_deadline_from_text returns None for a text whose deadline lies
\* more than 1 day in the past or more than 5 years in the future, and the
\* stated date for a 'deadline: 15 August 2025'-style text whose date lies
\* inside that window.
C16_DeadlineInsideWindow ==
    (dd.phase = "extracted" /\ Len(batch) = 1 /\ Len(batch[1]) = 4
     /\ batch[1][1] = "deadline:" /\ MonthOf(batch[1][3]) # 0
     /\ NumberOf(batch[1][2]) <= DaysInMonth(StatedDate(batch[1]).y, StatedDate(batch[1]).m))
    => dd.result = IF IsValidDeadline(StatedDate(batch[1])) THEN StatedDate(batch[1])
                   ELSE NoDate


(***************************************************************************)
(* Claims on the amount parsing                                            *)
(***************************************************************************)
\* The positions of the text holding 'X lakh' or 'X crore', X an integer or a
\* word-number
AmountPhrases(text) ==
    {i \in 1..(Len(text) - 1) :
        /\ text[i] \in {"5", "10", "five"}
        /\ text[i + 1] \in {"lakh", "crore"}}

\* C17: a text that contains 'X lakh' (or 'X crore'), X a positive integer or
\* a word-number, with or without a currency symbol before it and whatever
\* words surround it, parses to X * 100,000 (or X * 10,000,000).  Stated for
\* the texts holding one such phrase and no other number or unit.
C17_LakhCroreMultiplied ==
    (dd.phase = "parsed" /\ Cardinality(AmountPhrases(batch)) = 1
     /\ Cardinality({i \in 1..Len(batch) :
                        batch[i] \in {"5", "10", "five", "lakh", "crore"}}) = 2)
    => LET i == CHOOSE x \in AmountPhrases(batch) : TRUE
           X == IF batch[i] = "five" THEN 5 ELSE AmountOf(batch[i])
       IN dd.result = X * Multiplier(batch[i + 1])

\* C18: a text stating a range ('X to Y', 'between X and Y') parses to the
\* larger of the two bounds; '5 lakh to 10 lakh' parses to 1,000,000.
C18_RangeGivesLargerBound ==
    dd.phase = "parsed" =>
        /\ (Len(batch) = 3 /\ IsNumber(batch[1]) /\ batch[2] = "to" /\ IsNumber(batch[3]))
           => dd.result = Max(AmountOf(batch[1]), AmountOf(batch[3]))
        /\ (Len(batch) = 4 /\ batch[1] = "between" /\ IsNumber(batch[2])
            /\ batch[3] = "and" /\ IsNumber(batch[4]))
           => dd.result = Max(AmountOf(batch[2]), AmountOf(batch[4]))
        /\ batch = <<"5", "lakh", "to", "10", "lakh">> => dd.result = 1000000


(***************************************************************************)
(* Claims on the pages of a scrape                                         *)
(***************************************************************************)
\* C19: when the extraction of a page raises, the first page included,
\* scrape_scholarships does not raise and the job is not failed.
C19_PageErrorNotFatal ==
    \A j \in JobIds :
        (ex[j].page_error /\ ex[j].err = "extraction failed")
        => /\ ex[j].pc \notin {"raised", "exec_fail"}
           /\ jobs[j].status # "failed"

\* C20: the inter-page delay elapses between every two consecutive page
\* loads, first to second included: no next-page navigation is issued unless
\* the delay has elapsed since the previous extraction.
C20_DelayBeforeNextPage ==
    [][\A j \in JobIds :
          (ex[j].pc = "loop" /\ ex'[j].pc = "page_wait") => ex[j].delayed]_vars


(***************************************************************************)
(* Claims on the source discovery                                          *)
(***************************************************************************)
\* C21: during a discovery run no URL is fetched more than once, the seed
\* URLs included, two URLs that differ only in scheme or letter case being
\* the same URL.
C21_NoUrlFetchedTwice == ~dd.again /\ ~dd.same_again

\* C22: in a discovery run no page more than max_depth hops from a seed is
\* fetched, visited_urls never holds more than max_pages URLs, and no page is
\* fetched once the page ceiling is reached.
C22_CeilingsHold ==
    /\ Cardinality(dd.visited_urls) <= batch.max_pages
    /\ \A i \in 1..Len(dd.stack) :
          /\ dd.stack[i].max_depth >= 0
          /\ batch.max_depth - dd.stack[i].max_depth = i - 1
          /\ dd.stack[i].pc = "goto" => Cardinality(dd.visited_urls) < batch.max_pages
          /\ dd.stack[i].pc = "links" => dd.stack[i].max_depth > 0

C22_Witness ==
    /\ batch.max_depth >= 2
    /\ Len(dd.stack) = batch.max_depth + 1
    /\ dd.stack[Len(dd.stack)].max_depth = 0
    /\ dd.stack[Len(dd.stack)].pc = "goto"
    /\ Cardinality(dd.visited_urls) = batch.max_pages - 1


(***************************************************************************)
(* Claims on the duplicate groups                                          *)
(***************************************************************************)
\* The indices a chain of pairs of edges connects to a member of S
RECURSIVE ConnectedTo(_, _)
ConnectedTo(edges, S) ==
    LET more == S \cup {x \in 1..MaxNodes :
                           \E y \in S : <<x, y>> \in edges \/ <<y, x>> \in edges}
    IN IF more = S THEN S ELSE ConnectedTo(edges, more)

\* C23: get_duplicate_groups returns the connected components with at least
\* two members of the graph of the duplicate pairs: no index occurs twice,
\* every group is the set of the indices connected to any of its members, and
\* every index with a duplicate is in a group.
C23_GroupsAreComponents ==
    dd.phase = "grouped" =>
        /\ \A g \in 1..Len(dd.groups) :
              /\ Len(dd.groups[g]) >= 2
              /\ Cardinality(SeqToSet(dd.groups[g])) = Len(dd.groups[g])
              /\ \A x \in SeqToSet(dd.groups[g]) :
                    SeqToSet(dd.groups[g]) = ConnectedTo(batch, {x})
        /\ \A g, h \in 1..Len(dd.groups) :
              g # h => SeqToSet(dd.groups[g]) \cap SeqToSet(dd.groups[h]) = {}
        /\ \A p \in batch : p[1] \in Members(dd.groups) /\ p[2] \in Members(dd.groups)

C23_Witness ==
    /\ dd.phase = "grouped"
    /\ batch = {<<1, 4>>, <<2, 3>>, <<3, 4>>}
    /\ Len(dd.groups) = 1
    /\ SeqToSet(dd.groups[1]) = {1, 2, 3, 4}


\* C24: with keep_strategy 'first' the record kept from every duplicate group
\* is the member that comes earliest in the input list, and with 'last' the
\* member that comes latest.
C24_FirstAndLastByInputOrder ==
    dd.phase = "deduplicated" =>
        \A g \in 1..Len(dd.groups) :
            \A k \in SeqToSet(dd.groups[g]) \cap SeqToSet(dd.kept) :
                /\ dd.keep_strategy = "first" =>
                      \A x \in SeqToSet(dd.groups[g]) : k <= x
                /\ dd.keep_strategy = "last" =>
                      \A x \in SeqToSet(dd.groups[g]) : k >= x


(***************************************************************************)
(* Claims on the deadline check of the cleaning gate                       *)
(***************************************************************************)
\* C25: a candidate whose deadline is present and in the past is rejected by
\* _clean_and_validate_data: no record is emitted for it.
C25_PastDeadlineRejected ==
    (/\ dd.phase = "extracted"
     /\ ~batch.ai.raises
     /\ MergeExtractionResults(batch.ai.data, batch.traditional).deadline
            \in {"past_string", "past_datetime", "past_date"})
        => ~dd.result.accepted


(***************************************************************************)
(* Claims on the validation of one link                                    *)
(***************************************************************************)
\* C26: for a URL that fails the syntactic check (scheme or host missing, a
\* scheme other than http and https, or a length over the bound),
\* validate_url returns the status invalid and issues no request for it.
C26_MalformedNotFetched ==
    (/\ dd.phase = "validated"
     /\ dd.op = "validate_url"
     /\ ~ValidateUrlFormat(batch.urls[1]))
        => /\ ~dd.raised
           /\ dd.results[1].status = "invalid"
           /\ batch.urls[1].url \notin dd.fetched


\* C27: for a fetched response the status is broken when the status code is
\* at least 400, otherwise slow when the response took more than 10 seconds,
\* otherwise redirect when the final URL differs from the requested one,
\* otherwise valid.
C27_StatusOrder ==
    (/\ dd.phase = "validated"
     /\ dd.op = "validate_url"
     /\ WellFormed(batch.urls[1])
     /\ batch.urls[1].fetch = "response")
        => /\ ~dd.raised
           /\ dd.results[1].status =
                 (LET response == batch.urls[1].response
                  IN IF response.status >= 400 THEN "broken"
                     ELSE IF response.time > 10 THEN "slow"
                     ELSE IF response.redirected THEN "redirect"
                     ELSE "valid")


(***************************************************************************)
(* Claims on batch_validate                                                *)
(***************************************************************************)
\* C28: batch_validate takes the URLs in consecutive batches of at most
\* batch_size: while the fetches of a batch are pending or in flight every
\* URL of the batches before it has finished and no later URL has started, at
\* most batch_size fetches are in flight, and one delay has passed for each
\* batch before the current one.
C28_BatchesInSequence ==
    /\ Cardinality(dd.in_flight) <= batch.batch_size
    /\ dd.peak <= batch.batch_size
    /\ dd.pending \cup dd.in_flight \subseteq dd.i..BatchEnd(dd.i)
    /\ dd.pending \cup dd.in_flight # {} => 1..(dd.i - 1) \subseteq dd.finished
    /\ dd.finished \subseteq 1..BatchEnd(dd.i)
    /\ dd.pc = "gather" => dd.delays * batch.batch_size = dd.i - 1
    /\ dd.pc = "done" =>
          /\ dd.finished = 1..Len(batch.urls)
          /\ Len(dd.all_results) = Len(batch.urls)
          /\ \A k \in 1..Len(batch.urls) : dd.all_results[k].url = batch.urls[k].url

C28_Witness ==
    /\ batch.batch_size = 2
    /\ Len(batch.urls) = 3
    /\ dd.pc = "gather"
    /\ dd.i = 3
    /\ dd.in_flight = {3}
    /\ dd.finished = {1, 2}
    /\ dd.peak = 2
    /\ dd.delays = 1


(***************************************************************************)
(* Claims on the end of an executor                                        *)
(***************************************************************************)
\* C29: no job stays in status running after its executor has exited: when
\* execute_scraping_job or a scraping task returns or raises for the last
\* time, the job is in status completed or failed.
C29_NoRunningAfterExit ==
    [][\A j \in JobIds :
          (ex[j].pc # "done" /\ ex'[j].pc = "done")
              => jobs'[j].status \in {"completed", "failed"}]_vars

\* C30: a retry attempt of a scraping task, which runs under the task id of
\* the attempt that failed, is not made to fail by the job record that the
\* earlier attempt created under that id.
C30_RetryNotFailedByOwnRecord ==
    \A j \in JobIds :
        ~(/\ ex[j].kind = "task"
          /\ ex[j].attempts >= 1
          /\ ex[j].pc = "task_fail"
          /\ ex[j].err = "IntegrityError")

====
